---- MODULE Spec2Model ----
(***************************************************************************)
(* A state-machine model of rust-mir-checker's abstract interpreter: the   *)
(* interval instance of the Apron numerical domain, the hybrid abstract    *)
(* state with its exit conditions, the WTO fixpoint iterator, the          *)
(* inter-procedural call transfer, the drop / inline-asm handlers and the  *)
(* SMT-backed assertion checker.                                           *)
(***************************************************************************)
EXTENDS Integers, Sequences, FiniteSets, TLC

(* ------------------------------------------------------------------ *)
(* Bounds of the exploration                                           *)
(* ------------------------------------------------------------------ *)
\* largest widening_delay / narrowing_iteration option explored
MaxDelay == 2
\* cap on a loop head's iteration counter (the code has none)
MaxIter == 30
\* largest number of listed values of a SwitchInt explored
MaxTargets == 2

(* ------------------------------------------------------------------ *)
(* interval.rs: bounds and intervals                                   *)
(* ------------------------------------------------------------------ *)
\* Bound::NINF and Bound::INF, coded as integers beyond every finite bound
NINF == -100
INF == 100

Itv(lo, hi) == [lo |-> lo, hi |-> hi]
ItvTop == Itv(NINF, INF)
Min2(a, b) == IF a <= b THEN a ELSE b
Max2(a, b) == IF a >= b THEN a ELSE b
\* finite bound plus a constant; infinities absorb
BoundAdd(b, n) == IF b = NINF \/ b = INF THEN b ELSE b + n

(* ------------------------------------------------------------------ *)
(* apron_domain.rs: ApronAbstractDomain over the Box (interval) manager *)
(* A value is [bot, m]: m maps the dimensions of var_map to intervals.  *)
(* ------------------------------------------------------------------ *)
\* F applied to the value of v, with v evaluated once
Bind(v, F(_)) == CHOOSE r \in {F(x) : x \in {v}} : TRUE

Put(f, k, v) == [x \in (DOMAIN f) \cup {k} |-> IF x = k THEN v ELSE f[x]]
Del(f, k) == [x \in (DOMAIN f) \ {k} |-> f[x]]
EmptyMap == [x \in {} |-> 0]

top == [bot |-> FALSE, m |-> EmptyMap]
bottom == [bot |-> TRUE, m |-> EmptyMap]

is_bottom(a) == a.bot
is_top(a) == ~a.bot /\ \A d \in DOMAIN a.m : a.m[d] = ItvTop
get_dims(a) == Cardinality(DOMAIN a.m)

\* an abstract0 value over the dimensions of m; an empty interval makes it bottom
Normal(m) ==
  IF \E d \in DOMAIN m : m[d].lo > m[d].hi
  THEN [bot |-> TRUE, m |-> [d \in DOMAIN m |-> ItvTop]]
  ELSE [bot |-> FALSE, m |-> m]

\* both operands extended to the union of the two var_maps, new dimensions unconstrained
merge_var_map(a, D) ==
  [bot |-> a.bot, m |-> [d \in D |-> IF d \in DOMAIN a.m THEN a.m[d] ELSE ItvTop]]

ap_abstract0_join(a, b) ==
  IF a.bot THEN b ELSE IF b.bot THEN a
  ELSE [bot |-> FALSE,
        m |-> [d \in DOMAIN a.m |-> Itv(Min2(a.m[d].lo, b.m[d].lo), Max2(a.m[d].hi, b.m[d].hi))]]

ap_abstract0_meet(a, b) ==
  IF a.bot \/ b.bot THEN [bot |-> TRUE, m |-> [d \in DOMAIN a.m |-> ItvTop]]
  ELSE Normal([d \in DOMAIN a.m |-> Itv(Max2(a.m[d].lo, b.m[d].lo), Min2(a.m[d].hi, b.m[d].hi))])

\* standard interval widening: an unstable bound jumps to infinity
ap_abstract0_widening(a, b) ==
  IF a.bot THEN b ELSE IF b.bot THEN a
  ELSE [bot |-> FALSE,
        m |-> [d \in DOMAIN a.m |->
                 Itv(IF b.m[d].lo < a.m[d].lo THEN NINF ELSE a.m[d].lo,
                     IF b.m[d].hi > a.m[d].hi THEN INF ELSE a.m[d].hi)]]

\* inclusion test of the library; operands of different dimensions are not comparable
ap_abstract0_is_leq(a, b) ==
  IF DOMAIN a.m # DOMAIN b.m THEN FALSE
  ELSE a.bot \/ (~b.bot /\ \A d \in DOMAIN a.m :
                     a.m[d].lo >= b.m[d].lo /\ a.m[d].hi <= b.m[d].hi)

num_join(a, b) ==
  IF is_bottom(a) \/ is_top(b) THEN b
  ELSE IF is_top(a) \/ is_bottom(b) THEN a
  ELSE LET D == (DOMAIN a.m) \cup (DOMAIN b.m)
       IN ap_abstract0_join(merge_var_map(a, D), merge_var_map(b, D))

num_meet(a, b) ==
  IF is_bottom(a) \/ is_bottom(b) THEN bottom
  ELSE IF is_top(a) THEN b
  ELSE IF is_top(b) THEN a
  ELSE LET D == (DOMAIN a.m) \cup (DOMAIN b.m)
       IN ap_abstract0_meet(merge_var_map(a, D), merge_var_map(b, D))

num_widening_with(a, b) ==
  LET D == (DOMAIN a.m) \cup (DOMAIN b.m)
  IN ap_abstract0_widening(merge_var_map(a, D), merge_var_map(b, D))

num_narrowing_with(a, b) ==
  IF is_bottom(a) \/ is_bottom(b) THEN bottom
  ELSE IF is_top(a) THEN b
  ELSE IF is_top(b) THEN a
  ELSE num_meet(a, b)

num_leq(a, b) ==
  IF is_bottom(a) THEN TRUE
  ELSE IF is_bottom(b) THEN FALSE
  ELSE IF is_top(b) THEN TRUE
  ELSE IF is_top(a) THEN FALSE
  ELSE IF get_dims(a) # get_dims(b) THEN FALSE
  ELSE ap_abstract0_is_leq(num_join(a, b), b)

\* var := itv; a no-op on bottom, otherwise the dimension is created on demand
assign_linexpr(a, var, itv) ==
  IF is_bottom(a) THEN a ELSE [bot |-> FALSE, m |-> Put(a.m, var, itv)]

assign_int(a, var, n) == assign_linexpr(a, var, Itv(n, n))

\* interval of a variable; reading an absent variable adds an unconstrained dimension
var2itv(a, var) == IF var \in DOMAIN a.m THEN a.m[var] ELSE ItvTop

\* res := lhs + n
apply_bin_op_place_const(a, res, lhs, n) ==
  IF is_bottom(a) THEN a
  ELSE LET i == var2itv(a, lhs)
           b == [bot |-> FALSE, m |-> Put(a.m, lhs, i)]
       IN assign_linexpr(b, res, Itv(BoundAdd(i.lo, n), BoundAdd(i.hi, n)))

forget(a, var) == [bot |-> a.bot, m |-> Del(a.m, var)]

(* ------------------------------------------------------------------ *)
(* symbolic_value.rs / linear_constraint.rs                            *)
(* A branch condition is [op, v, c] for "v op c" on an integer place v. *)
(* A linear constraint is [kind, coef, v, cst] for "coef*v + cst kind 0".*)
(* ------------------------------------------------------------------ *)
less_than(v, c) == [op |-> "LessThan", v |-> v, c |-> c]
greater_or_equal(v, c) == [op |-> "GreaterOrEqual", v |-> v, c |-> c]

equals(v, c) == [op |-> "Equals", v |-> v, c |-> c]

\* negation is pushed through the comparison
logical_not(cond) ==
  IF cond.op = "LessThan" THEN greater_or_equal(cond.v, cond.c)
  ELSE IF cond.op = "Equals" THEN [op |-> "Ne", v |-> cond.v, c |-> cond.c]
  ELSE IF cond.op = "Ne" THEN equals(cond.v, cond.c)
  ELSE less_than(cond.v, cond.c)

\* SymbolicValue::and for operands that are not false: true is the neutral element
and(self, other) ==
  IF self.op = "True" THEN other
  ELSE IF other.op = "True" THEN self
  ELSE [op |-> "And", left |-> self, right |-> other]

\* LinearConstraintSystem::add: a constraint the system already has is not added again
add(csts, cst) == IF \E i \in DOMAIN csts : csts[i] = cst THEN csts ELSE Append(csts, cst)

\* LinearConstraintSystem::join: the result starts from the empty system and receives
\* the constraints of the argument
RECURSIVE lcs_join(_, _)
lcs_join(self, csts) ==
  IF csts = <<>> THEN <<>>
  ELSE add(lcs_join(self, SubSeq(csts, 1, Len(csts) - 1)), csts[Len(csts)])

\* TryFrom<SymbolicValue> for LinearConstraintSystem:
\* l < r becomes LessThan(l - r), l >= r becomes LessEq(r - l), l == r becomes
\* Equality(l - r), l != r becomes Inequality(l - r), a && b the join of the two systems
RECURSIVE try_from(_)
try_from(cond) ==
  IF cond.op = "And" THEN lcs_join(try_from(cond.left), try_from(cond.right))
  ELSE IF cond.op = "Equals"
  THEN <<[kind |-> "Equality", coef |-> 1, v |-> cond.v, cst |-> 0 - cond.c]>>
  ELSE IF cond.op = "Ne"
  THEN <<[kind |-> "Inequality", coef |-> 1, v |-> cond.v, cst |-> 0 - cond.c]>>
  ELSE IF cond.op = "LessThan"
  THEN <<[kind |-> "LessThan", coef |-> 1, v |-> cond.v, cst |-> 0 - cond.c]>>
  ELSE <<[kind |-> "LessEq", coef |-> 0 - 1, v |-> cond.v, cst |-> cond.c]>>

\* a constraint is the relation of coef * v + cst to 0; coef = 0 makes it constant
new_true == [kind |-> "Equality", coef |-> 0, v |-> "", cst |-> 0]
new_false == [kind |-> "Inequality", coef |-> 0, v |-> "", cst |-> 0]

is_tautology(cst) ==
  /\ cst.coef = 0
  /\ CASE cst.kind = "Equality" -> cst.cst = 0
       [] cst.kind = "Inequality" -> cst.cst # 0
       [] cst.kind = "LessEq" -> cst.cst <= 0
       [] OTHER -> cst.cst < 0

is_contradiction(cst) ==
  /\ cst.coef = 0
  /\ CASE cst.kind = "Equality" -> cst.cst # 0
       [] cst.kind = "Inequality" -> cst.cst = 0
       [] cst.kind = "LessEq" -> cst.cst > 0
       [] OTHER -> cst.cst >= 0

\* LinearConstraintSystem::is_false and is_true
is_false(conds) == conds # <<>> /\ \A i \in DOMAIN conds : is_contradiction(conds[i])
is_true(conds) == conds = <<>>

\* meet with one constraint over an integer dimension; a constant constraint leaves the
\* value as it is or empties it, a disequality over a dimension does not refine a box
meet_tcons(a, cst) ==
  LET i == var2itv(a, cst.v)
      strict == IF cst.kind = "LessThan" THEN 1 ELSE 0
      j == IF cst.kind = "Equality"
           THEN Itv(Max2(i.lo, 0 - cst.cst), Min2(i.hi, 0 - cst.cst))
           ELSE IF cst.coef = 1
           THEN Itv(i.lo, Min2(i.hi, (0 - cst.cst) - strict))
           ELSE Itv(Max2(i.lo, cst.cst + strict), i.hi)
  IN IF a.bot THEN a
     ELSE IF cst.coef = 0
     THEN IF is_tautology(cst) THEN a ELSE [bot |-> TRUE, m |-> [d \in DOMAIN a.m |-> ItvTop]]
     ELSE IF cst.kind = "Inequality" THEN a
     ELSE Normal(Put(a.m, cst.v, j))

RECURSIVE meet_tcons_array(_, _)
meet_tcons_array(a, conds) ==
  IF conds = <<>> THEN a ELSE meet_tcons_array(meet_tcons(a, Head(conds)), Tail(conds))

\* an add_constraints that takes an identically false system for a true one
add_constraints_false_is_true(a, conds) ==
  IF is_bottom(a) THEN a
  ELSE IF is_false(conds) THEN a
  ELSE IF is_true(conds) THEN a
  ELSE meet_tcons_array(a, conds)

add_constraints(a, conds) ==
  IF is_bottom(a) THEN a
  ELSE IF is_false(conds) THEN bottom
  ELSE IF is_true(conds) THEN a
  ELSE meet_tcons_array(a, conds)

(* ------------------------------------------------------------------ *)
(* symbolic_domain.rs / abstract_domain.rs: the state of a program point *)
(* [numerical_domain, symbolic_domain, exit_conditions].  The symbolic  *)
(* store binds a local to the heap block it owns; exit_conditions maps  *)
(* a successor block to the condition under which control reaches it.   *)
(* ------------------------------------------------------------------ *)
\* the value of a path whose two bindings differ (Expression::Join), not a heap block
JoinValue == -1
\* the value of a cast whose operand is not a compile-time constant (Expression::Cast)
CastValue == -2

lub(a, b) ==
  [x \in (DOMAIN a) \cup (DOMAIN b) |->
     IF x \notin DOMAIN b THEN a[x]
     ELSE IF x \notin DOMAIN a THEN b[x]
     ELSE IF a[x] = b[x] THEN b[x] ELSE JoinValue]

AbstractDomain(num, sym, exits) ==
  [numerical_domain |-> num, symbolic_domain |-> sym, exit_conditions |-> exits]
default == AbstractDomain(top, EmptyMap, EmptyMap)

abs_is_bottom(a) == is_bottom(a.numerical_domain)
is_empty(a) == is_top(a.numerical_domain) /\ DOMAIN a.symbolic_domain = {}

\* the four binary operations start from an empty exit-condition map
join(a, b) ==
  AbstractDomain(num_join(a.numerical_domain, b.numerical_domain),
                 lub(a.symbolic_domain, b.symbolic_domain), EmptyMap)
meet(a, b) ==
  AbstractDomain(num_meet(a.numerical_domain, b.numerical_domain),
                 b.symbolic_domain, EmptyMap)
widening_with(a, b) ==
  AbstractDomain(num_widening_with(a.numerical_domain, b.numerical_domain),
                 lub(a.symbolic_domain, b.symbolic_domain), EmptyMap)
narrowing_with(a, b) ==
  AbstractDomain(num_narrowing_with(a.numerical_domain, b.numerical_domain),
                 b.symbolic_domain, EmptyMap)
\* the order looks at the numerical half only
leq(a, b) == num_leq(a.numerical_domain, b.numerical_domain)

\* update_value_at for the three kinds of value the modelled statements write
update_int(a, path, n) ==
  [a EXCEPT !.numerical_domain = assign_int(a.numerical_domain, path, n)]
update_heap(a, path, h) ==
  [a EXCEPT !.symbolic_domain = Put(a.symbolic_domain, path, h)]
update_top(a, path) ==
  [a EXCEPT !.symbolic_domain = Del(a.symbolic_domain, path),
            !.numerical_domain = forget(a.numerical_domain, path)]

\* var := rvalue, the linear expression that is the one variable rvalue
assign_var(a, var, rvalue) ==
  IF is_bottom(a) THEN a
  ELSE LET i == var2itv(a, rvalue)
           b == [bot |-> FALSE, m |-> Put(a.m, rvalue, i)]
       IN assign_linexpr(b, var, i)

\* a symbolic value: its expression kind, the path of a Numerical or a Variable, whether
\* a constant or a variable is of integer type, the integer of a constant, and the
\* identity under which the symbolic store holds the value
SymbolicValue(expression, path, integer, n, id) ==
  [expression |-> expression, path |-> path, integer |-> integer, n |-> n, id |-> id]

\* AbstractDomain::value_at: a binding of the symbolic store comes first (the store keeps
\* the id of the value bound), then the interval of the numerical lattice
value_at(a, path) ==
  IF path \in DOMAIN a.symbolic_domain
  THEN [expression |-> "Stored", id |-> a.symbolic_domain[path]]
  ELSE IF path \in DOMAIN a.numerical_domain.m
  THEN LET interval == var2itv(a.numerical_domain, path)
       IN IF interval.lo = interval.hi /\ interval.lo # INF /\ interval.lo # NINF
          THEN SymbolicValue("CompileTimeConstant", "", TRUE, interval.lo, 0)
          ELSE SymbolicValue("Numerical", path, TRUE, 0, 0)
  ELSE [expression |-> "None"]

\* AbstractDomain::update_value_at
update_value_at(a, path, value) ==
  IF value.expression \in {"Bottom", "Top"}
  THEN [a EXCEPT !.symbolic_domain = Del(a.symbolic_domain, path),
                 !.numerical_domain = forget(a.numerical_domain, path)]
  ELSE IF value.expression = "Numerical"
  THEN [a EXCEPT !.numerical_domain = assign_var(a.numerical_domain, path, value.path)]
  ELSE IF value.expression = "CompileTimeConstant"
  THEN IF value.integer
       THEN [a EXCEPT !.numerical_domain = assign_int(a.numerical_domain, path, value.n)]
       ELSE [a EXCEPT !.symbolic_domain = Put(a.symbolic_domain, path, value.id)]
  ELSE IF value.expression = "Variable"
  THEN IF value.integer
       THEN [a EXCEPT !.numerical_domain = assign_var(a.numerical_domain, path, value.path),
                      !.symbolic_domain = Put(a.symbolic_domain, path, value.id)]
       ELSE [a EXCEPT !.symbolic_domain = Put(a.symbolic_domain, path, value.id)]
  ELSE [a EXCEPT !.symbolic_domain = Put(a.symbolic_domain, path, value.id)]

(* ------------------------------------------------------------------ *)
(* The analysed programs: MIR bodies with their weak topological order  *)
(* ------------------------------------------------------------------ *)
START_BLOCK == 0

\* statements: "assign_int" dst := n; "add" dst := src + n; "box" dst := Box::new
Stmt(op, dst, src, n) == [op |-> op, dst |-> dst, src |-> src, n |-> n]
\* terminators: Goto, SwitchInt on (v < c) with targets <<value 0, otherwise>>,
\* Return, Drop(v), InlineAsm, Assert(v < c), Call(callee, arg), FromRawParts(v)
Term(kind, v, c, targets, callee, arg) ==
  [kind |-> kind, v |-> v, c |-> c, targets |-> targets, callee |-> callee, arg |-> arg]
Goto(t) == Term("Goto", "", 0, <<t>>, "", <<>>)
SwitchInt(v, c, ft, tt) == Term("SwitchInt", v, c, <<ft, tt>>, "", <<>>)
Return == Term("Return", "", 0, <<>>, "", <<>>)
Call(callee, arg, t) == Term("Call", "", 0, <<t>>, callee, arg)
\* a call whose result is stored into the place destination
CallInto(destination, callee, arg, t) == Term("Call", destination, 0, <<t>>, callee, arg)
\* WTO components (wto.rs): a vertex, or a circle with its head and body
Vertex(bb) == [kind |-> "Vertex", bb |-> bb, body |-> <<>>]
Circle(head, body) == [kind |-> "Circle", bb |-> head, body |-> body]
Block(stmts, term) == [stmts |-> stmts, term |-> term]
Body(param, blocks, wto) == [param |-> param, blocks |-> blocks, wto |-> wto]

\* p = Box::new; x = 0; while <test> { x += 1; <last> }
\* test is "x < 3" for targets (3, 2) and "x >= 0" for targets (2, 3)
LoopBody(c, ft, tt, last) ==
  Body("", << Block(<<Stmt("box", "p", "p", 0), Stmt("assign_int", "x", "x", 0)>>, Goto(1)),
              Block(<<>>, SwitchInt("x", c, ft, tt)),
              Block(<<Stmt("add", "x", "x", 1)>>, last),
              Block(<<>>, Return) >>,
       << Vertex(0), Circle(1, <<Vertex(2)>>), Vertex(3) >>)

\* x = 0; t = 5; while x < 3 { x += 1; t = x as T }; assert(t < 10)
CastAssertBody ==
  Body("", << Block(<<Stmt("assign_int", "x", "x", 0), Stmt("assign_int", "t", "t", 5)>>, Goto(1)),
              Block(<<>>, SwitchInt("x", 3, 3, 2)),
              Block(<<Stmt("add", "x", "x", 1), Stmt("cast", "t", "x", 0)>>, Goto(1)),
              Block(<<>>, Term("Assert", "t", 10, <<4>>, "", <<>>)),
              Block(<<>>, Return) >>,
       << Vertex(0), Circle(1, <<Vertex(2)>>), Vertex(3), Vertex(4) >>)

\* p = Box::new; x = 0; while x < 3 { q = Box::new; x += 1 }
BoxLoopBody ==
  Body("", << Block(<<Stmt("box", "p", "p", 0), Stmt("assign_int", "x", "x", 0)>>, Goto(1)),
              Block(<<>>, SwitchInt("x", 3, 3, 2)),
              Block(<<Stmt("box", "q", "q", 0), Stmt("add", "x", "x", 1)>>, Goto(1)),
              Block(<<>>, Return) >>,
       << Vertex(0), Circle(1, <<Vertex(2)>>), Vertex(3) >>)

\* x = 0; while x < 3 { q = Box::new; x += 1; drop(q) }
BoxDropLoopBody ==
  Body("", << Block(<<Stmt("assign_int", "x", "x", 0)>>, Goto(1)),
              Block(<<>>, SwitchInt("x", 3, 3, 2)),
              Block(<<Stmt("box", "q", "q", 0), Stmt("add", "x", "x", 1)>>,
                    Term("Drop", "q", 0, <<1>>, "", <<>>)),
              Block(<<>>, Return) >>,
       << Vertex(0), Circle(1, <<Vertex(2)>>), Vertex(3) >>)

\* x = 0; t = 5; while x < 3 { x += 1; t = x as T }
CastBody ==
  Body("", << Block(<<Stmt("assign_int", "x", "x", 0), Stmt("assign_int", "t", "t", 5)>>, Goto(1)),
              Block(<<>>, SwitchInt("x", 3, 3, 2)),
              Block(<<Stmt("add", "x", "x", 1), Stmt("cast", "t", "x", 0)>>, Goto(1)),
              Block(<<>>, Return) >>,
       << Vertex(0), Circle(1, <<Vertex(2)>>), Vertex(3) >>)

\* x = 0; y = 0; while x < 2 { while y < 2 { y += 1 }; x += 1; y = 0 }
NestedBody ==
  Body("", << Block(<<Stmt("assign_int", "x", "x", 0), Stmt("assign_int", "y", "y", 0)>>, Goto(1)),
              Block(<<>>, SwitchInt("x", 2, 5, 2)),
              Block(<<>>, SwitchInt("y", 2, 4, 3)),
              Block(<<Stmt("add", "y", "y", 1)>>, Goto(2)),
              Block(<<Stmt("add", "x", "x", 1), Stmt("assign_int", "y", "y", 0)>>, Goto(1)),
              Block(<<>>, Return) >>,
       << Vertex(0), Circle(1, <<Circle(2, <<Vertex(3)>>), Vertex(4)>>), Vertex(5) >>)

\* x = 3; if x < 5 { t = 1 }; assert(x < 5)
BranchBody ==
  Body("", << Block(<<Stmt("assign_int", "x", "x", 3)>>, SwitchInt("x", 5, 2, 1)),
              Block(<<Stmt("assign_int", "t", "t", 1)>>, Goto(2)),
              Block(<<>>, Term("Assert", "x", 5, <<3>>, "", <<>>)),
              Block(<<>>, Return) >>,
       << Vertex(0), Vertex(1), Vertex(2), Vertex(3) >>)

\* p = Box::new; q = Vec::from_raw_parts(p); drop(p); drop(p)
DoubleFreeBody(first) ==
  Body("", << Block(<<Stmt("box", "p", "p", 0)>>, first),
              Block(<<>>, Term("Drop", "p", 0, <<2>>, "", <<>>)),
              Block(<<>>, Term("Drop", "p", 0, <<3>>, "", <<>>)),
              Block(<<>>, Return) >>,
       << Vertex(0), Vertex(1), Vertex(2), Vertex(3) >>)

\* x = 0; loop { if x >= 10 { assert(x < 20) }; x += 1; if x >= 3 { break } }
DoWhileBody ==
  Body("", << Block(<<Stmt("assign_int", "x", "x", 0)>>, Goto(1)),
              Block(<<>>, SwitchInt("x", 10, 2, 3)),
              Block(<<>>, Term("Assert", "x", 20, <<3>>, "", <<>>)),
              Block(<<Stmt("add", "x", "x", 1)>>, SwitchInt("x", 3, 4, 1)),
              Block(<<>>, Return) >>,
       << Vertex(0), Circle(1, <<Vertex(2), Vertex(3)>>), Vertex(4) >>)

\* a body that makes two calls in a row
CallerBody(c1, a1, c2, a2) ==
  Body("", << Block(<<Stmt("assign_int", "x", "x", 1)>>, Call(c1, a1, 1)),
              Block(<<>>, Call(c2, a2, 2)),
              Block(<<>>, Return) >>,
       << Vertex(0), Vertex(1), Vertex(2) >>)

\* the same two calls with the blocks numbered the other way: bb0 -> bb2 -> bb1
CallerBodyReordered(c1, a1, c2, a2) ==
  Body("", << Block(<<Stmt("assign_int", "x", "x", 1)>>, Call(c1, a1, 2)),
              Block(<<>>, Return),
              Block(<<>>, Call(c2, a2, 1)) >>,
       << Vertex(0), Vertex(2), Vertex(1) >>)

\* fn f(n) { if n >= 1 { assert(n < 5) } }
GuardedAssertBody ==
  Body("n", << Block(<<>>, SwitchInt("n", 1, 1, 2)),
               Block(<<>>, Term("Assert", "n", 5, <<3>>, "", <<>>)),
               Block(<<>>, Return),
               Block(<<>>, Return) >>,
       << Vertex(0), Vertex(2), Vertex(1), Vertex(3) >>)

\* fn f() { y = 2; callee() }
CalleeBody(callee) ==
  Body("", << Block(<<Stmt("assign_int", "y", "y", 2)>>, Call(callee, <<>>, 1)),
              Block(<<>>, Return) >>,
       << Vertex(0), Vertex(1) >>)

\* fn g() -> i32 { 7 }
ResultBody ==
  Body("", << Block(<<Stmt("assign_int", "result", "result", 7)>>, Return) >>, << Vertex(0) >>)

\* fn h(n) { if n >= 1 { y = 7; return } else { y = 8; return } }
TwoReturnBody ==
  Body("n", << Block(<<>>, SwitchInt("n", 1, 1, 2)),
               Block(<<Stmt("assign_int", "y", "y", 7)>>, Return),
               Block(<<Stmt("assign_int", "y", "y", 8)>>, Return) >>,
       << Vertex(0), Vertex(1), Vertex(2) >>)

\* x = 1; d = 5; d = callee()
StoreCallBody(callee) ==
  Body("", << Block(<<Stmt("assign_int", "x", "x", 1), Stmt("assign_int", "d", "d", 5)>>,
                    CallInto("d", callee, <<>>, 1)),
              Block(<<>>, Return) >>,
       << Vertex(0), Vertex(1) >>)

\* d = callee() as the first thing the function does
FirstCallBody(callee) ==
  Body("", << Block(<<>>, CallInto("d", callee, <<>>, 1)),
              Block(<<>>, Return) >>,
       << Vertex(0), Vertex(1) >>)

LeafBody == Body("", << Block(<<Stmt("assign_int", "z", "z", 7)>>, Return) >>, << Vertex(0) >>)

\* fn f() { q = Box::new; drop(q) }
BoxDropBody ==
  Body("", << Block(<<Stmt("box", "q", "q", 0)>>, Term("Drop", "q", 0, <<1>>, "", <<>>)),
              Block(<<>>, Return) >>,
       << Vertex(0), Vertex(1) >>)

\* p = Box::new; callee(); drop(p)
BoxCallDropBody(callee) ==
  Body("", << Block(<<Stmt("box", "p", "p", 0)>>, Call(callee, <<>>, 1)),
              Block(<<>>, Term("Drop", "p", 0, <<2>>, "", <<>>)),
              Block(<<>>, Return) >>,
       << Vertex(0), Vertex(1), Vertex(2) >>)

\* asm!(..)
AsmBody ==
  Body("", << Block(<<>>, Term("InlineAsm", "", 0, <<1>>, "", <<>>)), Block(<<>>, Return) >>,
       << Vertex(0), Vertex(1) >>)

\* callee(); asm!(..)
AsmCallBody(callee) ==
  Body("", << Block(<<>>, Call(callee, <<>>, 1)),
              Block(<<>>, Term("InlineAsm", "", 0, <<2>>, "", <<>>)),
              Block(<<>>, Return) >>,
       << Vertex(0), Vertex(1), Vertex(2) >>)

\* q = Vec::from_raw_parts(p, ..); a = q as T; b = a + 0; _0 = b + 0
TaintChainBody ==
  Body("", << Block(<<>>, Term("FromRawParts", "p", 0, <<1>>, "", <<>>)),
              Block(<<Stmt("cast", "a", "q", 0), Stmt("add", "b", "a", 0),
                      Stmt("add", "_0", "b", 0)>>, Return) >>,
       << Vertex(0), Vertex(1) >>)

\* the programs explored: each maps its functions (def ids) to their bodies; entry is "main"
Programs ==
  << [main |-> LoopBody(3, 3, 2, Goto(1))],
     [main |-> LoopBody(0, 2, 3, Goto(1))],
     [main |-> NestedBody],
     [main |-> BranchBody],
     [main |-> LoopBody(3, 3, 2, Term("Drop", "p", 0, <<1>>, "", <<>>))],
     [main |-> LoopBody(3, 3, 2, Term("InlineAsm", "", 0, <<1>>, "", <<>>))],
     [main |-> DoubleFreeBody(Goto(1))],
     [main |-> DoubleFreeBody(Term("FromRawParts", "p", 0, <<1>>, "", <<>>))],
     [main |-> DoWhileBody],
     [main |-> CallerBodyReordered("f", <<0>>, "f", <<1>>), f |-> GuardedAssertBody],
     [main |-> CallerBody("f", <<>>, "g", <<>>), f |-> CalleeBody("main"), g |-> LeafBody],
     [main |-> CalleeBody("main")],
     [main |-> CallerBody("f", <<>>, "f", <<>>), f |-> CalleeBody("f")],
     [main |-> CallerBody("f", <<>>, "g", <<>>),
      f |-> LoopBody(3, 3, 2, Term("Drop", "p", 0, <<1>>, "", <<>>)), g |-> LeafBody],
     [main |-> CallerBody("f", <<1>>, "f", <<0>>), f |-> GuardedAssertBody],
     [main |-> CastBody],
     [main |-> BoxLoopBody],
     [main |-> StoreCallBody("ext")],
     [main |-> FirstCallBody("ext")],
     [main |-> StoreCallBody("g"), g |-> ResultBody],
     [main |-> StoreCallBody("f"), f |-> LoopBody(0, 2, 3, Goto(1))],
     [main |-> StoreCallBody("h"), h |-> TwoReturnBody],
     [main |-> CastAssertBody],
     [main |-> AsmCallBody("f"), f |-> AsmBody],
     [main |-> TaintChainBody],
     [main |-> BoxDropLoopBody],
     [main |-> BoxCallDropBody("f"), f |-> BoxDropBody],
     [main |-> CallerBody("f", <<>>, "f", <<>>), f |-> BoxDropBody] >>

(* ------------------------------------------------------------------ *)
(* body_visitor.rs / block_visitor.rs: one WtoFixPointIterator           *)
(* cx = [it, dropped_heaps]: the iterator and the global dropped set     *)
(* ------------------------------------------------------------------ *)
VARIABLES prog, widening_delay, narrowing_iteration, iters, checked_def_ids,
          diagnostics_for, dropped_heaps, smt_answers, finished
\* the operands and the result of one application of a lattice operation
VARIABLES lhs, rhs, applied
operands == <<lhs, rhs, applied>>
\* the message of the panic that ended the analysis, "" while there was none
VARIABLES panicked
\* the memory_safety_only option and the diagnostics emit_diagnostics has emitted, in order
VARIABLES memory_safety_only, emitted
\* the entry_point option, the code main has passed to process::exit (-1 while it has
\* not) and the messages logged with error!
VARIABLES entry_point, exit_code, log
driver == <<entry_point, exit_code, log>>
\* the fresh_variable_offset of every iterator created under the entry point so far, in
\* the order of creation
VARIABLES fresh_offsets
vars == <<prog, widening_delay, narrowing_iteration, iters, checked_def_ids,
          diagnostics_for, dropped_heaps, smt_answers, finished, lhs, rhs, applied, panicked,
          memory_safety_only, emitted, entry_point, exit_code, log,
         fresh_offsets>>

Frame(head, comps, phase, pre) ==
  [head |-> head, comps |-> comps, idx |-> 0, phase |-> phase, pre |-> pre, k |-> 1]

\* WtoFixPointIterator::new; run() starts at the first component of the WTO
\* the offset added to fresh_variable_offset for every callee analysis
FRESH_VARIABLE_OFFSET == 1000000

WtoFixPointIterator(def_id, init_state, fresh_variable_offset, call_stack) ==
  [def_id |-> def_id, call_stack |-> call_stack, init_state |-> init_state,
   fresh_variable_offset |-> fresh_variable_offset,
   next_fresh_variable_offset |-> fresh_variable_offset + FRESH_VARIABLE_OFFSET,
   state |-> default, post |-> EmptyMap, result_blocks |-> {},
   heap_addresses |-> EmptyMap, heap_address_counter |-> 0,
   tainted_variables |-> {}, place_to_abstract_value |-> EmptyMap,
   buffered_diagnostics |-> <<>>, num_iter |-> EmptyMap, joins |-> EmptyMap,
   frames |-> << [Frame(0 - 1, Programs[prog][def_id].wto, "root", default) EXCEPT !.idx = 1] >>,
   pending |-> 0 - 1]

Cx(it, dh) == [it |-> it, dropped_heaps |-> dh]
body_of(it) == Programs[prog][it.def_id]
block_data(it, bb) == body_of(it).blocks[bb + 1]

emit_diagnostic(it, bb, cause, msg) ==
  [it EXCEPT !.buffered_diagnostics = Append(@, [span |-> bb, cause |-> cause, msg |-> msg])]

\* an allocation that mints a new heap block at every visit of the site
get_new_heap_block_always_fresh(it, loc) ==
  [it EXCEPT !.heap_addresses = Put(@, loc, it.heap_address_counter),
             !.heap_address_counter = @ + 1]

\* heap_address_counter is the counter of the ConstantValueCache of the iterator's own
\* CrateContext (CrateContext::default() in new): every iterator counts from 0
get_new_heap_block(it, loc) ==
  IF loc \in DOMAIN it.heap_addresses THEN it
  ELSE [it EXCEPT !.heap_addresses = Put(@, loc, it.heap_address_counter),
                  !.heap_address_counter = @ + 1]

\* the locals of the right-hand side of an assignment: the operand of a cast, the place
\* operand of a binary operation; a constant has none
extract_local_from_rvalue(s) == IF s.op \in {"add", "cast"} THEN {s.src} ELSE {}

\* an assignment that passes no taint on
propagate_taint_nowhere(it0, s) == it0

propagate_taint(it0, s) ==
  IF extract_local_from_rvalue(s) \cap it0.tainted_variables # {}
  THEN [it0 EXCEPT !.tainted_variables = @ \cup {s.dst}]
  ELSE it0

\* visit_assign: the taint is propagated, then the rvalue is evaluated into the place
visit_statement(it0, s, loc) ==
  LET it == propagate_taint(it0, s) IN
  CASE s.op = "assign_int" -> [it EXCEPT !.state = update_int(@, s.dst, s.n)]
    [] s.op = "add" ->
         [it EXCEPT !.state.numerical_domain = apply_bin_op_place_const(@, s.dst, s.src, s.n)]
    [] s.op = "cast" ->
         \* value_at gives a constant for a singleton interval and the cast folds it;
         \* any other operand gives a Cast expression, a non-numerical value
         LET i == var2itv(it.state.numerical_domain, s.src)
         IN IF ~is_bottom(it.state.numerical_domain) /\ i.lo = i.hi
            THEN [it EXCEPT !.state = update_int(@, s.dst, i.lo)]
            ELSE [it EXCEPT !.state = update_heap(@, s.dst, CastValue)]
    [] s.op = "box" ->
         LET it2 == get_new_heap_block(it, loc)
         IN [it2 EXCEPT !.state = update_heap(@, s.dst, it2.heap_addresses[loc])]

\* discr == 0 is the negated comparison; the default target gets its negation
visit_switch_int(it, term) ==
  LET cond == logical_not(less_than(term.v, term.c))
      not_cond == logical_not(cond)
  IN [it EXCEPT !.state.exit_conditions = Put(Put(@, term.targets[1], cond), term.targets[2], not_cond)]

\* the body of visit_switch_int for any list of (value, target) pairs: a condition is the
\* set of its conjuncts, so new_true is {} and and() adds a conjunct. Returns the
\* exit_conditions map after the loop over targets.iter() and the insert for otherwise
RECURSIVE switch_int_loop(_, _, _, _)
switch_int_loop(exit_conditions, default_exit_condition, discr, targets) ==
  IF targets = <<>>
  THEN [exit_conditions |-> exit_conditions, default_exit_condition |-> default_exit_condition]
  ELSE LET cond == equals(discr, Head(targets).value)
           not_cond == logical_not(cond)
       IN switch_int_loop(Put(exit_conditions, Head(targets).target, {cond}),
                          default_exit_condition \cup {not_cond}, discr, Tail(targets))

switch_int_exit_conditions(exit_conditions, discr, targets, otherwise) ==
  LET done == switch_int_loop(exit_conditions, {}, discr, targets)
  IN Put(done.exit_conditions, otherwise, done.default_exit_condition)

visit_return(it, bb) ==
  LET it2 == [it EXCEPT !.result_blocks = @ \cup {bb}]
  IN IF "_0" \in it.tainted_variables THEN emit_diagnostic(it2, bb, "Memory", "visit return") ELSE it2

\* the heap block the dropped local owns, if the symbolic store binds one
get_related_heaps(it, local) ==
  IF local \in DOMAIN it.state.symbolic_domain /\ it.state.symbolic_domain[local] # JoinValue
  THEN {it.state.symbolic_domain[local]} ELSE {}

\* a Drop that never records the heap block it drops
visit_drop_forgetful(cx, bb, term) ==
  LET it1 == IF term.v \in cx.it.tainted_variables
             THEN emit_diagnostic(cx.it, bb, "Memory", "visit drop") ELSE cx.it
      related == get_related_heaps(it1, term.v)
  IN IF related # {} /\ related \subseteq cx.dropped_heaps
     THEN Cx(emit_diagnostic(it1, bb, "Memory", "double-free"), cx.dropped_heaps)
     ELSE Cx(it1, cx.dropped_heaps)

visit_drop(cx, bb, term) ==
  LET it1 == IF term.v \in cx.it.tainted_variables
             THEN emit_diagnostic(cx.it, bb, "Memory", "visit drop") ELSE cx.it
      related == get_related_heaps(it1, term.v)
  IN IF related = {} THEN Cx(it1, cx.dropped_heaps)
     ELSE IF related \subseteq cx.dropped_heaps
          THEN Cx(emit_diagnostic(it1, bb, "Memory", "double-free"), cx.dropped_heaps)
          ELSE Cx(it1, cx.dropped_heaps \cup related)

\* the kind of expression a value of the symbolic store is
expression_kind(value) ==
  IF value = JoinValue THEN "Expression::Join"
  ELSE IF value = CastValue THEN "Expression::Cast"
  ELSE "Expression::HeapBlock"

\* visit_operand on a place: the symbolic binding if there is one (value_at looks there
\* first), otherwise a numerical expression over the path
visit_operand(it, path) ==
  IF path \in DOMAIN it.state.symbolic_domain
  THEN expression_kind(it.state.symbolic_domain[path])
  ELSE path

\* the condition operand's value, cached under the place of this block's condition
visit_assert(it, bb, term) ==
  [it EXCEPT !.place_to_abstract_value = Put(@, bb, less_than(visit_operand(it, term.v), term.c))]

visit_inline_asm(it, bb) == emit_diagnostic(it, bb, "Assembly", "inline asm")

handle_from_raw_parts(it, term) ==
  [it EXCEPT !.tainted_variables = @ \cup {term.v, "q"}]

\* BlockVisitor::transfer_and_refine for the effect on the call result: the binding of
\* source_path is removed from the state and its value is stored at target_path
transfer_and_refine(state, target_path, source_path) ==
  IF source_path \in DOMAIN state.symbolic_domain
  THEN update_heap(update_top(state, source_path), target_path, state.symbolic_domain[source_path])
  ELSE IF ~abs_is_bottom(state) /\ source_path \in DOMAIN state.numerical_domain.m
  THEN LET i == var2itv(state.numerical_domain, source_path)
       IN IF i.lo = i.hi THEN update_int(update_top(state, source_path), target_path, i.lo)
          ELSE update_top(update_top(state, source_path), target_path)
  ELSE state

\* the caller's state after a call whose callee produced function_post_state;
\* destination is "" for a call without a destination
transfer_and_refine_normal_return_state(it, function_post_state, destination) ==
  IF destination = "" THEN [it EXCEPT !.state = function_post_state]
  ELSE IF is_empty(function_post_state)
  THEN [it EXCEPT !.state = update_top(function_post_state, "result")]
  ELSE [it EXCEPT !.state = transfer_and_refine(function_post_state, destination, "result")]

\* tcx.is_mir_available(callee_def_id)
is_mir_available(def_id) == def_id \in DOMAIN Programs[prog]

InSeq(x, seq) == \E i \in 1..Len(seq) : seq[i] = x

\* a call is analysed in a nested iterator unless the callee is on the call stack
call_expands(it, term) == term.kind = "Call" /\ ~InSeq(term.callee, it.call_stack)
\* ... and unless the callee has no MIR
mir_call(it, term) == call_expands(it, term) /\ is_mir_available(term.callee)

visit_terminator(cx, bb, term) ==
  CASE term.kind = "SwitchInt" -> Cx(visit_switch_int(cx.it, term), cx.dropped_heaps)
    [] term.kind = "Return" -> Cx(visit_return(cx.it, bb), cx.dropped_heaps)
    [] term.kind = "Drop" -> visit_drop(cx, bb, term)
    [] term.kind = "Assert" -> Cx(visit_assert(cx.it, bb, term), cx.dropped_heaps)
    [] term.kind = "InlineAsm" -> Cx(visit_inline_asm(cx.it, bb), cx.dropped_heaps)
    [] term.kind = "FromRawParts" -> Cx(handle_from_raw_parts(cx.it, term), cx.dropped_heaps)
    [] term.kind = "Call" /\ ~call_expands(cx.it, term) ->
         \* get_function_post_state gave None: the default state is transferred
         Cx(transfer_and_refine_normal_return_state(cx.it, default, term.v), cx.dropped_heaps)
    [] term.kind = "Call" /\ call_expands(cx.it, term) /\ ~is_mir_available(term.callee) ->
         \* create_function_post_state without MIR: a clone of the caller's state
         Cx(transfer_and_refine_normal_return_state(cx.it, cx.it.state, term.v), cx.dropped_heaps)
    [] OTHER -> cx

RECURSIVE visit_statements(_, _, _, _)
visit_statements(it, stmts, bb, i) ==
  IF i > Len(stmts) THEN it
  ELSE Bind(visit_statement(it, stmts[i], <<bb, i>>),
            LAMBDA it2 : visit_statements(it2, stmts, bb, i + 1))

\* BlockVisitor::new followed by the statements of the block
visit_block_statements(it, bb, pre) ==
  visit_statements([it EXCEPT !.state = pre], block_data(it, bb).stmts, bb, 1)

record_post(cx, bb, post) == Cx([cx.it EXCEPT !.post = Put(@, bb, post)], cx.dropped_heaps)

analyze_basic_block(cx, bb, pre) ==
  IF ~abs_is_bottom(pre)
  THEN Bind(visit_block_statements(cx.it, bb, pre), LAMBDA it1 :
         Bind(visit_terminator(Cx(it1, cx.dropped_heaps), bb, block_data(it1, bb).term),
              LAMBDA cx1 : record_post(cx1, bb, cx1.it.state)))
  ELSE record_post(cx, bb, pre)

get_iter_num(it, head) == IF head \in DOMAIN it.num_iter THEN it.num_iter[head] ELSE 0

\* an extrapolation that never switches to widening
extrapolate_never_widens(it, head, before, after) ==
  [state |-> join(before, after), widened |-> FALSE]

\* an extrapolation that starts to widen one iteration early
extrapolate_one_early(it, head, before, after) ==
  IF get_iter_num(it, head) < widening_delay
  THEN [state |-> join(before, after), widened |-> FALSE]
  ELSE [state |-> widening_with(before, after), widened |-> TRUE]

\* the extrapolated pre-state, and whether the widening branch (and its log line) was taken
extrapolate(it, head, before, after) ==
  IF get_iter_num(it, head) <= widening_delay
  THEN [state |-> join(before, after), widened |-> FALSE]
  ELSE [state |-> widening_with(before, after), widened |-> TRUE]

\* the operator refine picks by the circle's iteration counter, which only the ascending
\* loop increments
refine_operator(it, head) == IF get_iter_num(it, head) = 1 THEN "meet" ELSE "narrowing_with"

refine(it, head, before, after) ==
  IF refine_operator(it, head) = "meet" THEN meet(before, after) ELSE narrowing_with(before, after)

\* predecessors of bb that already have a post-state, in block order
pred_blocks(it, bb) ==
  {p \in DOMAIN it.post : \E i \in 1..Len(block_data(it, p).term.targets) :
                             block_data(it, p).term.targets[i] = bb}

\* the post-state of pred constrained by the exit condition it holds for bb
pred_state(it, pred, bb) ==
  LET st == it.post[pred]
  IN IF bb \in DOMAIN st.exit_conditions
     THEN [st EXCEPT !.numerical_domain = add_constraints(@, try_from(st.exit_conditions[bb]))]
     ELSE st

RECURSIVE fold1_join(_, _, _)
fold1_join(it, preds, bb) ==
  LET last == CHOOSE p \in preds : \A q \in preds : q <= p
  IN IF Cardinality(preds) = 1 THEN pred_state(it, last, bb)
     ELSE Bind(fold1_join(it, preds \ {last}, bb), LAMBDA acc :
            Bind(pred_state(it, last, bb), LAMBDA st : join(acc, st)))

get_state_from_predecessors(it, bb) == fold1_join(it, pred_blocks(it, bb), bb)

\* pre-state of a component's first block
pre_of(it, bb) == IF bb = START_BLOCK THEN it.init_state ELSE get_state_from_predecessors(it, bb)

(* ------------------------------------------------------------------ *)
(* z3_solver.rs / assertion_checker.rs                                  *)
(* ------------------------------------------------------------------ *)
\* check() of "numerical constraints /\ cond": the solver's verdict, or Unknown on a timeout
solve_expression(num, cond, timeout) ==
  LET i == var2itv(num, cond.v)
      sat == ~is_bottom(num) /\ (IF cond.op = "LessThan" THEN i.lo < cond.c ELSE i.hi >= cond.c)
  IN IF timeout THEN "Unknown" ELSE IF sat THEN "Sat" ELSE "Unsat"

\* the solver's log for one assertion: the constraints and condition asserted and the
\* answers to "cond" and to "not cond"; the second query is only made after Sat
smt_queries(num, cond, t1, t2) ==
  LET r1 == solve_expression(num, cond, t1)
  IN [num |-> num, cond |-> cond, r1 |-> r1,
      r2 |-> IF r1 = "Sat" THEN solve_expression(num, logical_not(cond), t2) ELSE "NotAsked"]

\* a checker that takes a second answer other than Sat as a proof
check_assert_condition_trusting(answers) ==
  CASE answers.r1 = "Unsat" -> "Unsafe"
    [] answers.r1 = "Sat" -> IF answers.r2 # "Sat" THEN "Safe" ELSE "Warning"
    [] OTHER -> "Warning"

check_assert_condition(answers) ==
  CASE answers.r1 = "Unsat" -> "Unsafe"
    [] answers.r1 = "Sat" -> IF answers.r2 = "Unsat" THEN "Safe" ELSE "Warning"
    [] OTHER -> "Warning"

\* blocks the checker classifies: an Assert terminator with a post-state and a cached condition
checked_blocks(it) ==
  {bb \in DOMAIN it.post : block_data(it, bb).term.kind = "Assert"
                           /\ bb \in DOMAIN it.place_to_abstract_value}

assert_answers(it, bb, t1, t2) ==
  smt_queries(it.post[bb].numerical_domain, it.place_to_abstract_value[bb], t1, t2)

RECURSIVE run_terminators(_, _, _, _)
run_terminators(it, bbs, t1, t2) ==
  IF bbs = {} THEN it
  ELSE LET bb == CHOOSE b \in bbs : \A q \in bbs : b <= q
           res == check_assert_condition(assert_answers(it, bb, t1, t2))
           it2 == IF res = "Safe" THEN it
                  ELSE emit_diagnostic(it, bb, "Assert",
                                       IF res = "Unsafe" THEN "Provably error" ELSE "Possible error")
       IN run_terminators(it2, bbs \ {bb}, t1, t2)

\* get_symbolic_as_z3_expression has no translation for these kinds of expression:
\* it ends in unimplemented!("Cannot cast symbolic value into Z3 ast")
UnsupportedKinds == {"Expression::Cast", "Expression::HeapBlock", "Expression::Join"}

\* the first assertion, in block order, whose condition the solver interface cannot translate
unsupported_blocks(it) ==
  {bb \in checked_blocks(it) : it.place_to_abstract_value[bb].v \in UnsupportedKinds}

\* run_checker on this iterator runs into the unimplemented! of the translation
checker_panics(it) == it.def_id \notin checked_def_ids /\ unsupported_blocks(it) # {}

\* run_checker: [checked, diags, answers] of the global context after the call, and
\* whether the call reached the loop that cancels the buffered diagnostics
run_checker(it, t1, t2) ==
  IF it.def_id \in checked_def_ids
  THEN [checked |-> checked_def_ids, diags |-> diagnostics_for, answers |-> smt_answers,
        cancelled |-> FALSE]
  ELSE [checked |-> checked_def_ids \cup {it.def_id}, cancelled |-> TRUE,
        diags |-> Put(diagnostics_for, it.def_id,
                      run_terminators(it, checked_blocks(it), t1, t2).buffered_diagnostics),
        answers |-> [k \in DOMAIN smt_answers \cup {<<it.def_id, b>> : b \in checked_blocks(it)} |->
                       IF k[1] = it.def_id /\ k[2] \in checked_blocks(it)
                       THEN assert_answers(it, k[2], t1, t2) ELSE smt_answers[k]]]

\* the order in which the functions of the crate lie in the source file
DefIds == <<"f", "g", "h", "ext", "main">>
def_index(def_id) == CHOOSE i \in DOMAIN DefIds : DefIds[i] = def_id

\* a diagnostic of the function def_id, with the primary span of its builder:
\* the function's place in the file, then the block's place in the function
Diagnostic(def_id, d) ==
  [primary_spans |-> <<def_index(def_id), d.span>>, cause |-> d.cause, msg |-> d.msg]

\* the flag every caller of emit_diagnostic passes with the cause: true for the
\* Memory warnings of visit_return and visit_drop and for the Assembly warning of
\* visit_inline_asm, false for the diagnostics of the assertion checker
is_memory_safety(diag) == diag.cause \in {"Memory", "Assembly"}

\* Diagnostic::compare: Less
compare(x, y) ==
  \/ x.primary_spans[1] < y.primary_spans[1]
  \/ x.primary_spans[1] = y.primary_spans[1] /\ x.primary_spans[2] < y.primary_spans[2]

\* the orders in which a HashMap may hand out its keys
Orders(keys) ==
  {o \in [1..Cardinality(keys) -> keys] : \A i, j \in DOMAIN o : i # j => o[i] # o[j]}

\* diagnostics_for.map.values_mut().flatten()
RECURSIVE flatten(_, _)
flatten(diags, order) ==
  IF order = <<>> THEN <<>>
  ELSE [i \in DOMAIN diags[Head(order)] |-> Diagnostic(Head(order), diags[Head(order)][i])]
       \o flatten(diags, Tail(order))

\* a sort that leaves the diagnostics as they were collected
sort_by_nothing(s) == s

\* slice::sort_by(Diagnostic::compare): stable
RECURSIVE sort_by(_)
sort_by(s) ==
  IF s = <<>> THEN <<>>
  ELSE Bind(sort_by(SubSeq(s, 1, Len(s) - 1)),
            LAMBDA sorted :
              LET d == s[Len(s)]
                  k == Cardinality({i \in DOMAIN sorted : ~compare(d, sorted[i])})
              IN SubSeq(sorted, 1, k) \o <<d>> \o SubSeq(sorted, k + 1, Len(sorted)))

\* emit_diagnostics with no suppressed_warnings: sort, keep the memory-safety diagnostics
\* under memory_safety_only, emit each
emit_diagnostics(diags, order) ==
  Bind(sort_by(flatten(diags, order)),
       LAMBDA diagnostics :
         IF memory_safety_only
         THEN SelectSeq(diagnostics, is_memory_safety)
         ELSE diagnostics)

\* timeouts can only be drawn where the checker really queries the solver
timeouts_apply(it, t1, t2) ==
  (t1 \/ t2) => (it.def_id \notin checked_def_ids /\ checked_blocks(it) # {})

(* ------------------------------------------------------------------ *)
(* The analysis as a state machine: the stack of nested iterators, each  *)
(* with its position in the WTO (a stack of frames: the root sequence    *)
(* and the circles being iterated)                                       *)
(* ------------------------------------------------------------------ *)
Delays == 0..MaxDelay

Init ==
  /\ prog \in 1..Len(Programs)
  /\ widening_delay \in Delays
  /\ narrowing_iteration \in Delays
  /\ iters = << WtoFixPointIterator("main", default, 0, <<>>) >>
  /\ checked_def_ids = {}
  /\ diagnostics_for = EmptyMap
  /\ dropped_heaps = {}
  /\ smt_answers = EmptyMap
  /\ finished = FALSE
  /\ lhs = default /\ rhs = default /\ applied = [op |-> "none", result |-> default]
  /\ panicked = ""
  /\ memory_safety_only \in BOOLEAN
  /\ emitted = <<>>
  /\ entry_point = "main" /\ exit_code = -1 /\ log = <<>>
  /\ fresh_offsets = <<0>>

Top == iters[Len(iters)]
TopFrame == Top.frames[Len(Top.frames)]
\* the component the top frame is about to visit
AtComponent == TopFrame.idx \in 1..Len(TopFrame.comps)
Comp == TopFrame.comps[TopFrame.idx]
FrameDone == TopFrame.idx > Len(TopFrame.comps)
\* fold1 over the predecessors needs at least one recorded post-state
has_pre(it, bb) == bb = START_BLOCK \/ pred_blocks(it, bb) # {}

set_frame(it, f) == [it EXCEPT !.frames[Len(it.frames)] = f]
advance(it) == [it EXCEPT !.frames[Len(it.frames)].idx = @ + 1]
\* leave visit_circle: drop the circle's frame and move the enclosing frame on
leave_circle(it) == advance([it EXCEPT !.frames = SubSeq(@, 1, Len(@) - 1)])

\* visit_vertex on a block whose terminator needs no nested analysis
VisitVertex ==
  /\ ~finished /\ AtComponent /\ Comp.kind = "Vertex" /\ has_pre(Top, Comp.bb)
  /\ \E pre \in {pre_of(Top, Comp.bb)} :
       /\ ~(mir_call(Top, block_data(Top, Comp.bb).term) /\ ~abs_is_bottom(pre))
       /\ \E cx \in {analyze_basic_block(Cx(Top, dropped_heaps), Comp.bb, pre)} :
            /\ iters' = [iters EXCEPT ![Len(iters)] = advance(cx.it)]
            /\ dropped_heaps' = cx.dropped_heaps
  /\ UNCHANGED <<driver, fresh_offsets, panicked, memory_safety_only, emitted, lhs, rhs, applied, prog, widening_delay, narrowing_iteration, checked_def_ids,
                 diagnostics_for, smt_answers, finished>>

\* init_pre_condition: the callee's parameter receives the actual argument
init_pre_condition(state, param, arg) ==
  IF arg = <<>> THEN state ELSE update_int(state, param, arg[1])

\* visit_vertex reaching visit_call -> get_function_post_state -> create_function_post_state:
\* the callee is pushed on the call stack and analysed from the caller's current state
VisitCall ==
  /\ ~finished /\ AtComponent /\ Comp.kind = "Vertex" /\ has_pre(Top, Comp.bb)
  /\ \E pre \in {pre_of(Top, Comp.bb)} :
       /\ mir_call(Top, block_data(Top, Comp.bb).term) /\ ~abs_is_bottom(pre)
       /\ \E it1 \in {[visit_block_statements(Top, Comp.bb, pre) EXCEPT !.pending = Comp.bb]} :
            LET term == block_data(Top, Comp.bb).term
                callee == WtoFixPointIterator(term.callee,
                            init_pre_condition(it1.state, Programs[prog][term.callee].param, term.arg),
                            it1.next_fresh_variable_offset,
                            Append(it1.call_stack, term.callee))
            IN /\ iters' = Append([iters EXCEPT ![Len(iters)] = it1], callee)
               /\ fresh_offsets' = Append(fresh_offsets, callee.fresh_variable_offset)
  /\ UNCHANGED <<driver, panicked, memory_safety_only, emitted, lhs, rhs, applied, prog, widening_delay, narrowing_iteration, checked_def_ids,
                 diagnostics_for, dropped_heaps, smt_answers, finished>>

\* a post-state of the function that joins every block with a post-state, whatever its
\* terminator
joined_state_of_all_blocks(it, bbs) ==
  LET RECURSIVE all(_)
      all(bs) ==
        LET last == CHOOSE p \in bs : \A q \in bs : q <= p
        IN IF Cardinality(bs) = 1 THEN it.post[last]
           ELSE Bind(all(bs \ {last}), LAMBDA acc : join(acc, it.post[last]))
  IN all(DOMAIN it.post)

RECURSIVE joined_state(_, _)
joined_state(it, bbs) ==
  LET last == CHOOSE p \in bbs : \A q \in bbs : q <= p
  IN IF Cardinality(bbs) = 1 THEN it.post[last]
     ELSE Bind(joined_state(it, bbs \ {last}), LAMBDA acc : join(acc, it.post[last]))

\* a return from a callee that leaves the caller's next offset where it was
keep_next_fresh_variable_offset(caller, callee) == caller.next_fresh_variable_offset

\* create_function_post_state: the offset for the caller's next call is the callee's
update_next_fresh_variable_offset(caller, callee) == callee.next_fresh_variable_offset

\* the rest of create_function_post_state and of visit_call once the callee's run() is over:
\* run_checker, the join of the result blocks, the transfer into the caller, post[bb] of the caller
ReturnFromCall ==
  /\ ~finished /\ Len(iters) > 1 /\ Len(Top.frames) = 1 /\ FrameDone
  /\ ~checker_panics(Top)
  /\ Top.result_blocks # {}
  /\ \E t1, t2 \in BOOLEAN :
       /\ timeouts_apply(Top, t1, t2)
       /\ \E g \in {run_checker(Top, t1, t2)} :
          \E c1 \in {transfer_and_refine_normal_return_state(iters[Len(iters) - 1],
                        joined_state(Top, Top.result_blocks),
                        block_data(iters[Len(iters) - 1], iters[Len(iters) - 1].pending).term.v)} :
            LET c2 == [c1 EXCEPT !.post = Put(@, c1.pending, c1.state), !.pending = 0 - 1,
                                 !.next_fresh_variable_offset =
                                    update_next_fresh_variable_offset(c1, Top)]
            IN /\ iters' = Append(SubSeq(iters, 1, Len(iters) - 2), advance(c2))
               /\ checked_def_ids' = g.checked
               /\ diagnostics_for' = g.diags
               /\ smt_answers' = g.answers
  /\ UNCHANGED <<driver, fresh_offsets, panicked, memory_safety_only, emitted, lhs, rhs, applied, prog, widening_delay, narrowing_iteration, dropped_heaps, finished>>

\* create_function_post_state when the callee's run() recorded no result block: the bug
\* detector has run, fold1 over no state gives None and expect("panic in fold1") panics
PanicInCreateFunctionPostState ==
  /\ ~finished /\ Len(iters) > 1 /\ Len(Top.frames) = 1 /\ FrameDone
  /\ ~checker_panics(Top)
  /\ Top.result_blocks = {}
  /\ \E t1, t2 \in BOOLEAN :
       /\ timeouts_apply(Top, t1, t2)
       /\ \E g \in {run_checker(Top, t1, t2)} :
            /\ checked_def_ids' = g.checked
            /\ diagnostics_for' = g.diags
            /\ smt_answers' = g.answers
  /\ panicked' = "panic in fold1"
  /\ finished' = TRUE
  /\ UNCHANGED <<driver, fresh_offsets, memory_safety_only, emitted, lhs, rhs, applied, prog, widening_delay, narrowing_iteration, iters, dropped_heaps>>

\* visit_circle, up to its loop: the pre-state of the head
EnterCircle ==
  /\ ~finished /\ AtComponent /\ Comp.kind = "Circle" /\ has_pre(Top, Comp.bb)
  /\ iters' = [iters EXCEPT ![Len(iters)].frames =
                 Append(@, Frame(Comp.bb, Comp.body, "asc", pre_of(Top, Comp.bb)))]
  /\ UNCHANGED <<driver, fresh_offsets, panicked, memory_safety_only, emitted, lhs, rhs, applied, prog, widening_delay, narrowing_iteration, checked_def_ids,
                 diagnostics_for, dropped_heaps, smt_answers, finished>>

\* one pass of either loop of visit_circle starts: the head block is analysed with pre;
\* an ascending pass first increments the circle's iteration counter
AnalyzeHead ==
  /\ ~finished /\ TopFrame.phase # "root" /\ TopFrame.idx = 0
  /\ TopFrame.phase = "asc" => get_iter_num(Top, TopFrame.head) < MaxIter
  /\ \E it1 \in {IF TopFrame.phase = "asc"
                   THEN [Top EXCEPT !.num_iter = Put(@, TopFrame.head, get_iter_num(Top, TopFrame.head) + 1)]
                   ELSE Top} :
       \E cx \in {analyze_basic_block(Cx(it1, dropped_heaps), TopFrame.head, TopFrame.pre)} :
         /\ iters' = [iters EXCEPT ![Len(iters)] = advance(cx.it)]
         /\ dropped_heaps' = cx.dropped_heaps
  /\ UNCHANGED <<driver, fresh_offsets, panicked, memory_safety_only, emitted, lhs, rhs, applied, prog, widening_delay, narrowing_iteration, checked_def_ids,
                 diagnostics_for, smt_answers, finished>>

\* end of an ascending pass: stop when new_pre <= pre, else extrapolate.
\* joins is a history field: the number of extrapolations of each head that were pure joins
CheckFixpoint ==
  /\ ~finished /\ TopFrame.phase = "asc" /\ FrameDone
  /\ \E new_pre \in {get_state_from_predecessors(Top, TopFrame.head)} :
     LET ext == extrapolate(Top, TopFrame.head, TopFrame.pre, new_pre)
         it1 == IF leq(new_pre, TopFrame.pre)
                THEN IF narrowing_iteration # 0
                     THEN set_frame(Top, [TopFrame EXCEPT !.phase = "narrow", !.idx = 0, !.k = 1])
                     ELSE leave_circle(Top)
                ELSE [set_frame(Top, [TopFrame EXCEPT !.idx = 0, !.pre = ext.state])
                        EXCEPT !.joins = IF ext.widened THEN @
                                         ELSE Put(@, TopFrame.head,
                                                  1 + (IF TopFrame.head \in DOMAIN @
                                                       THEN @[TopFrame.head] ELSE 0))]
     IN iters' = [iters EXCEPT ![Len(iters)] = it1]
  /\ UNCHANGED <<driver, fresh_offsets, panicked, memory_safety_only, emitted, lhs, rhs, applied, prog, widening_delay, narrowing_iteration, checked_def_ids,
                 diagnostics_for, dropped_heaps, smt_answers, finished>>

\* end of a narrowing pass: stop when pre <= new_pre, else refine; at most narrowing_iteration passes
CheckNarrowing ==
  /\ ~finished /\ TopFrame.phase = "narrow" /\ FrameDone
  /\ \E new_pre \in {get_state_from_predecessors(Top, TopFrame.head)} :
     LET it1 == IF leq(TopFrame.pre, new_pre) \/ TopFrame.k >= narrowing_iteration
                THEN leave_circle(Top)
                ELSE set_frame(Top, [TopFrame EXCEPT !.idx = 0, !.k = @ + 1,
                                       !.pre = refine(Top, TopFrame.head, TopFrame.pre, new_pre)])
     IN iters' = [iters EXCEPT ![Len(iters)] = it1]
  /\ UNCHANGED <<driver, fresh_offsets, panicked, memory_safety_only, emitted, lhs, rhs, applied, prog, widening_delay, narrowing_iteration, checked_def_ids,
                 diagnostics_for, dropped_heaps, smt_answers, finished>>

\* analyze_function after run(): the bug detector runs on the entry function
FinishEntry ==
  /\ ~finished /\ Len(iters) = 1 /\ Len(Top.frames) = 1 /\ FrameDone
  /\ ~checker_panics(Top)
  /\ \E t1, t2 \in BOOLEAN :
       /\ timeouts_apply(Top, t1, t2)
       /\ \E g \in {run_checker(Top, t1, t2)} :
            /\ checked_def_ids' = g.checked
            /\ diagnostics_for' = g.diags
            /\ smt_answers' = g.answers
            /\ \E order \in Orders(DOMAIN g.diags) : emitted' = emit_diagnostics(g.diags, order)
  /\ finished' = TRUE
  /\ UNCHANGED <<driver, fresh_offsets, panicked, memory_safety_only, lhs, rhs, applied, prog, widening_delay,
                 narrowing_iteration, iters, dropped_heaps>>

\* run_checker, after the run() of the entry function or of a callee, reaching an assertion
\* whose condition get_symbolic_as_z3_expression cannot translate: the assertions of the
\* blocks before it have been checked, then unimplemented! panics
PanicInGetSymbolicAsZ3Expression ==
  /\ ~finished /\ Len(Top.frames) = 1 /\ FrameDone
  /\ checker_panics(Top)
  /\ \E t1, t2 \in BOOLEAN :
       LET first == CHOOSE b \in unsupported_blocks(Top) : \A q \in unsupported_blocks(Top) : b <= q
           before == {b \in checked_blocks(Top) : b < first}
       IN /\ (t1 \/ t2) => before # {}
          /\ smt_answers' = [k \in DOMAIN smt_answers \cup {<<Top.def_id, b>> : b \in before} |->
                               IF k[1] = Top.def_id /\ k[2] \in before
                               THEN assert_answers(Top, k[2], t1, t2) ELSE smt_answers[k]]
  /\ panicked' = "not implemented: Cannot cast symbolic value into Z3 ast"
  /\ finished' = TRUE
  /\ UNCHANGED <<driver, fresh_offsets, memory_safety_only, emitted, lhs, rhs, applied, prog, widening_delay, narrowing_iteration, iters,
                 checked_def_ids, diagnostics_for, dropped_heaps>>

Next ==
  \/ VisitVertex
  \/ VisitCall
  \/ ReturnFromCall
  \/ PanicInCreateFunctionPostState
  \/ PanicInGetSymbolicAsZ3Expression
  \/ EnterCircle
  \/ AnalyzeHead
  \/ CheckFixpoint
  \/ CheckNarrowing
  \/ FinishEntry

Spec == Init /\ [][Next]_vars

\* the scheduler runs the analysis to completion: every step that can be taken is taken
FairSpec == Spec /\ WF_vars(Next)

(* ------------------------------------------------------------------ *)
(* body_visitor.rs: get_state_from_predecessors as a function of the     *)
(* iterator and of the block, applied once to any non-entry block of the *)
(* body in any state the analysis reaches                                *)
(* ------------------------------------------------------------------ *)
ApplyGetStateFromPredecessors ==
  /\ ~finished /\ applied.op = "none"
  /\ \E bb \in 1..(Len(body_of(Top).blocks) - 1) :
       \E preds \in {pred_blocks(Top, bb)} :
         IF preds = {}
         THEN \* fold1 over no state gives None and the expect panics
              /\ applied' = [op |-> "get_state_from_predecessors", bb |-> bb, preds |-> preds,
                             result |-> default]
              /\ panicked' = "Panic while merging states using fold1"
              /\ finished' = TRUE
         ELSE /\ applied' = [op |-> "get_state_from_predecessors", bb |-> bb, preds |-> preds,
                             result |-> get_state_from_predecessors(Top, bb)]
              /\ UNCHANGED <<panicked, finished>>
  /\ UNCHANGED <<driver, fresh_offsets, memory_safety_only, emitted, lhs, rhs, prog, widening_delay, narrowing_iteration, iters, checked_def_ids,
                 diagnostics_for, dropped_heaps, smt_answers>>

PredecessorsNext ==
  \/ Next
  \/ ApplyGetStateFromPredecessors

PredecessorsSpec == Init /\ [][PredecessorsNext]_vars

(* ------------------------------------------------------------------ *)
(* main and run_analysis around the analysis: the entry point is       *)
(* looked up by name, and the process exits with the compiler's result *)
(* ------------------------------------------------------------------ *)
EXIT_SUCCESS == 0
EXIT_FAILURE == 1

\* the entry point names tried: one every program has, one some have, one none has
EntryPoints == {"main", "f", "start"}

\* GlobalContext::new returns Some when a function of the crate has the entry point's name
global_context == entry_point \in DOMAIN Programs[prog]

MainInit ==
  /\ prog \in 1..Len(Programs)
  /\ widening_delay \in Delays
  /\ narrowing_iteration \in Delays
  /\ entry_point \in EntryPoints
  /\ iters = IF global_context THEN << WtoFixPointIterator(entry_point, default, 0, <<>>) >> ELSE <<>>
  /\ fresh_offsets = IF global_context THEN <<0>> ELSE <<>>
  /\ checked_def_ids = {}
  /\ diagnostics_for = EmptyMap
  /\ dropped_heaps = {}
  /\ smt_answers = EmptyMap
  /\ finished = FALSE
  /\ lhs = default /\ rhs = default /\ applied = [op |-> "none", result |-> default]
  /\ panicked = ""
  /\ memory_safety_only \in BOOLEAN
  /\ emitted = <<>>
  /\ exit_code = -1 /\ log = <<>>

\* run_analysis when GlobalContext::new finds no entry function: new logs and returns None,
\* run_analysis logs and returns, and after_analysis lets the compilation continue
EntryPointNotFound ==
  /\ ~finished /\ ~global_context
  /\ log' = log \o <<"Entry point not found", "GlobalContext Initialization Failed">>
  /\ finished' = TRUE
  /\ UNCHANGED <<fresh_offsets, entry_point, exit_code, panicked, memory_safety_only, emitted, lhs, rhs, applied,
                 prog, widening_delay, narrowing_iteration, iters, checked_def_ids,
                 diagnostics_for, dropped_heaps, smt_answers>>

\* what run_compiler.run() returns to main: Err when the session has emitted an error
\* diagnostic, Ok otherwise; error! lines of the log are no diagnostics of the session
compiler_result ==
  IF \E i \in DOMAIN emitted : emitted[i].msg = "Provably error" THEN "Err" ELSE "Ok"

\* the end of main: process::exit with the code matched from the compiler's result
ProcessExit ==
  /\ finished /\ panicked = "" /\ exit_code = -1
  /\ exit_code' = IF compiler_result = "Ok" THEN EXIT_SUCCESS ELSE EXIT_FAILURE
  /\ UNCHANGED <<fresh_offsets, entry_point, log, panicked, memory_safety_only, emitted, lhs, rhs, applied,
                 prog, widening_delay, narrowing_iteration, iters, checked_def_ids,
                 diagnostics_for, dropped_heaps, smt_answers, finished>>

MainNext ==
  \/ global_context /\ Next
  \/ EntryPointNotFound
  \/ ProcessExit

MainSpec == MainInit /\ [][MainNext]_vars

(* ------------------------------------------------------------------ *)
(* abstract_domain.rs: the four lattice operations of the hybrid domain, *)
(* applied once to operands drawn from a small set of states             *)
(* ------------------------------------------------------------------ *)
Numericals ==
  {bottom, top, Normal([x |-> Itv(0, 0)]), Normal([x |-> Itv(0, 2)]), Normal([x |-> Itv(1, 3)]),
   Normal([x |-> Itv(0, 0), y |-> Itv(1, 1)])}
Stores == {EmptyMap, [p |-> 0], [p |-> 1], [p |-> 0, q |-> 1]}
Hybrids == {AbstractDomain(n, st, EmptyMap) : n \in Numericals, st \in Stores}

DomainInit ==
  /\ lhs \in Hybrids /\ rhs \in Hybrids
  /\ applied = [op |-> "none", result |-> default]
  /\ prog = 1 /\ widening_delay = 0 /\ narrowing_iteration = 0
  /\ iters = << WtoFixPointIterator("main", default, 0, <<>>) >>
  /\ checked_def_ids = {} /\ diagnostics_for = EmptyMap /\ dropped_heaps = {}
  /\ smt_answers = EmptyMap /\ finished = FALSE /\ panicked = ""
  /\ memory_safety_only = FALSE /\ emitted = <<>>
  /\ entry_point = "main" /\ exit_code = -1 /\ log = <<>>
  /\ fresh_offsets = <<0>>

analysis_vars == <<prog, widening_delay, narrowing_iteration, iters, checked_def_ids,
                   diagnostics_for, dropped_heaps, smt_answers, finished, panicked,
                   memory_safety_only, emitted, entry_point, exit_code, log,
                   fresh_offsets>>

ApplyJoin ==
  /\ applied.op = "none"
  /\ applied' = [op |-> "join", result |-> join(lhs, rhs)]
  /\ UNCHANGED <<lhs, rhs, analysis_vars>>

ApplyMeet ==
  /\ applied.op = "none"
  /\ applied' = [op |-> "meet", result |-> meet(lhs, rhs)]
  /\ UNCHANGED <<lhs, rhs, analysis_vars>>

ApplyWidening ==
  /\ applied.op = "none"
  /\ applied' = [op |-> "widening_with", result |-> widening_with(lhs, rhs)]
  /\ UNCHANGED <<lhs, rhs, analysis_vars>>

ApplyNarrowing ==
  /\ applied.op = "none"
  /\ applied' = [op |-> "narrowing_with", result |-> narrowing_with(lhs, rhs)]
  /\ UNCHANGED <<lhs, rhs, analysis_vars>>

\* the paths written and the values written to them: one value of each kind that
\* update_value_at tells apart
Paths == {"x", "p"}
Values ==
  { SymbolicValue("Top", "", FALSE, 0, 0),
    SymbolicValue("Bottom", "", FALSE, 0, 0),
    SymbolicValue("Numerical", "x", TRUE, 0, 0),
    SymbolicValue("CompileTimeConstant", "", TRUE, 5, 0),
    SymbolicValue("CompileTimeConstant", "", FALSE, 0, 2),
    SymbolicValue("Variable", "x", TRUE, 0, 3),
    SymbolicValue("Variable", "p", FALSE, 0, 4),
    SymbolicValue("HeapBlock", "", FALSE, 0, 1),
    SymbolicValue("Cast", "", FALSE, 0, CastValue) }

ApplyUpdateValueAt ==
  /\ applied.op = "none"
  /\ \E path \in Paths, value \in Values :
       applied' = [op |-> "update_value_at", path |-> path, value |-> value,
                   result |-> update_value_at(lhs, path, value)]
  /\ UNCHANGED <<lhs, rhs, analysis_vars>>

\* the SwitchTargets tried: up to MaxTargets values in ascending order, each with its
\* target block, and the otherwise block; blocks may be shared
SwitchBlocks == 1..MaxTargets
SwitchTargets ==
  UNION {{ts \in [1..n -> [value : 0..(MaxTargets - 1), target : SwitchBlocks]] :
            \A i, j \in 1..n : i < j => ts[i].value < ts[j].value} : n \in 1..MaxTargets}

ApplyVisitSwitchInt ==
  /\ applied.op = "none"
  /\ \E targets \in SwitchTargets, otherwise \in SwitchBlocks \cup {MaxTargets + 1} :
       applied' = [op |-> "visit_switch_int", targets |-> targets, otherwise |-> otherwise,
                   result |-> [lhs EXCEPT !.exit_conditions =
                                 switch_int_exit_conditions(@, "x", targets, otherwise)]]
  /\ UNCHANGED <<lhs, rhs, analysis_vars>>

\* the condition visit_switch_int builds for the otherwise target: the negated case
\* conditions, folded with and() in the order of the targets
RECURSIVE default_exit_condition(_, _)
default_exit_condition(discr, targets) ==
  IF targets = <<>> THEN [op |-> "True"]
  ELSE and(default_exit_condition(discr, SubSeq(targets, 1, Len(targets) - 1)),
           logical_not(equals(discr, targets[Len(targets)].value)))

\* get_state_from_predecessors translating the exit condition of a SwitchInt default edge
ApplyTryFrom ==
  /\ applied.op = "none"
  /\ \E targets \in SwitchTargets :
       applied' = [op |-> "try_from", targets |-> targets, result |-> lhs,
                   system |-> try_from(default_exit_condition("x", targets))]
  /\ UNCHANGED <<lhs, rhs, analysis_vars>>

\* the constraint systems added: the empty one, constant ones, one over a dimension
Systems ==
  { <<>>, <<new_true>>, <<new_false>>,
    <<new_false, [kind |-> "LessEq", coef |-> 0, v |-> "", cst |-> 1]>>,
    try_from(less_than("x", 2)), try_from(equals("x", 1)) }

ApplyAddConstraints ==
  /\ applied.op = "none"
  /\ \E conds \in Systems :
       applied' = [op |-> "add_constraints", system |-> conds,
                   result |-> [lhs EXCEPT !.numerical_domain = add_constraints(@, conds)]]
  /\ UNCHANGED <<lhs, rhs, analysis_vars>>

ApplyLeq ==
  /\ applied.op = "none"
  /\ applied' = [op |-> "leq", result |-> lhs, answer |-> leq(lhs, rhs)]
  /\ UNCHANGED <<lhs, rhs, analysis_vars>>

DomainNext ==
  \/ ApplyAddConstraints
  \/ ApplyTryFrom
  \/ ApplyLeq
  \/ ApplyVisitSwitchInt
  \/ ApplyJoin
  \/ ApplyMeet
  \/ ApplyWidening
  \/ ApplyNarrowing
  \/ ApplyUpdateValueAt

DomainSpec == DomainInit /\ [][DomainNext]_vars

(* ------------------------------------------------------------------ *)
(* Properties                                                            *)
(* ------------------------------------------------------------------ *)
AllIters == {iters[i] : i \in 1..Len(iters)}

run_returned(it) == Len(it.frames) = 1 /\ it.frames[1].idx > Len(it.frames[1].comps)

\* every valuation of the numerical state small is a valuation of big
\* (a path without a dimension is unconstrained)
covers(big, small) ==
  small.bot \/ (~big.bot /\ \A d \in DOMAIN big.m :
                   var2itv(small, d).lo >= big.m[d].lo /\ var2itv(small, d).hi <= big.m[d].hi)

\* the post-state of p constrained by the exit condition p's own terminator holds for bb
own_exit_state(it, p, bb) ==
  LET term == block_data(it, p).term
      cond == IF bb = term.targets[2] THEN less_than(term.v, term.c)
              ELSE greater_or_equal(term.v, term.c)
  IN IF term.kind = "SwitchInt"
     THEN add_constraints(it.post[p].numerical_domain, try_from(cond))
     ELSE it.post[p].numerical_domain

\* the effect of bb on a numerical pre-state (no modelled terminator but Call changes it)
block_transfer(it, bb, num) ==
  IF is_bottom(num) THEN num
  ELSE visit_block_statements(it, bb, AbstractDomain(num, EmptyMap, EmptyMap)).state.numerical_domain

\* C2: when run returns, the recorded post-states form a post-fixpoint: post[bb]
\* over-approximates the transfer of bb applied to the initial state (entry block) and to
\* the post-state of every predecessor constrained by that predecessor's exit condition
C2_PostFixpoint ==
  run_returned(Top) =>
    \A bb \in DOMAIN Top.post :
      block_data(Top, bb).term.kind # "Call" =>
        /\ bb = START_BLOCK =>
             covers(Top.post[bb].numerical_domain,
                    block_transfer(Top, bb, Top.init_state.numerical_domain))
        /\ \A p \in pred_blocks(Top, bb) :
             covers(Top.post[bb].numerical_domain,
                    block_transfer(Top, bb, own_exit_state(Top, p, bb)))

\* the functions with a body that a body calls
callees(def_id) ==
  {Programs[prog][def_id].blocks[i].term.callee :
     i \in {j \in 1..Len(Programs[prog][def_id].blocks) :
              /\ Programs[prog][def_id].blocks[j].term.kind = "Call"
              /\ is_mir_available(Programs[prog][def_id].blocks[j].term.callee)}}

\* the longest chain of calls from def_id through functions not in seen
RECURSIVE call_depth(_, _)
call_depth(def_id, seen) ==
  LET next == callees(def_id) \ seen
      depths == {call_depth(c, seen \cup {c}) : c \in next}
  IN IF next = {} THEN 0 ELSE 1 + (CHOOSE d \in depths : \A e \in depths : e <= d)

\* C3: the call-stack check bounds the nesting of callee analyses by the program's
\* static call depth (the longest chain of calls from the entry through distinct functions)
C3_NestingWithinStaticDepth ==
  Len(iters) - 1 <= call_depth("main", {"main"})

\* the top iterator is about to visit a call whose callee is already on its call stack
at_recursive_call ==
  /\ ~finished /\ AtComponent /\ Comp.kind = "Vertex" /\ has_pre(Top, Comp.bb)
  /\ block_data(Top, Comp.bb).term.kind = "Call"
  /\ ~call_expands(Top, block_data(Top, Comp.bb).term)
  /\ ~abs_is_bottom(pre_of(Top, Comp.bb))

\* C4: a call whose callee is already on the call stack leaves the caller's state
\* unchanged: the state after the call is the state the block's statements produced
C4_RecursiveCallKeepsState ==
  [][at_recursive_call =>
       LET before == visit_block_statements(Top, Comp.bb, pre_of(Top, Comp.bb)).state
           after == iters'[Len(iters)].post[Comp.bb]
       IN /\ after.numerical_domain = before.numerical_domain
          /\ after.symbolic_domain = before.symbolic_domain]_vars

\* the classification the satisfiability of the two formulas determines
sat_classification(num, cond) ==
  IF solve_expression(num, logical_not(cond), FALSE) = "Unsat" THEN "Safe"
  ELSE IF solve_expression(num, cond, FALSE) = "Unsat" THEN "Unsafe"
  ELSE "Warning"

\* the Assert diagnostics published for the assertion k = <<def_id, bb>>
assert_diagnostics(k) ==
  IF k[1] \in DOMAIN diagnostics_for
  THEN {i \in 1..Len(diagnostics_for[k[1]]) :
          diagnostics_for[k[1]][i].span = k[2] /\ diagnostics_for[k[1]][i].cause = "Assert"}
  ELSE {}

\* the verdict the published diagnostics show for the assertion k
published(k) ==
  IF assert_diagnostics(k) = {} THEN "Safe"
  ELSE IF \E i \in assert_diagnostics(k) : diagnostics_for[k[1]][i].msg = "Provably error"
       THEN "Unsafe" ELSE "Warning"

\* C5: an assertion the solver answered definitely is Safe whenever "not desired" is
\* unsatisfiable with the block's numerical constraints, otherwise Unsafe whenever
\* "desired" is unsatisfiable, and Warning otherwise
C5_ClassificationBySatisfiability ==
  \A k \in DOMAIN smt_answers :
    "Unknown" \notin {smt_answers[k].r1, smt_answers[k].r2} =>
      published(k) = sat_classification(smt_answers[k].num, smt_answers[k].cond)

\* the solver gave up on one of the queries of the assertion k
unknown_answer(k) == "Unknown" \in {smt_answers[k].r1, smt_answers[k].r2}

\* C6: whenever the solver answers Unknown (its timeout) the assertion is classified
\* Warning, never Safe and never Unsafe, and the analysis goes on to its end
C6_UnknownIsWarning ==
  /\ [](\A k \in DOMAIN smt_answers : unknown_answer(k) => published(k) = "Warning")
  /\ ((\E k \in DOMAIN smt_answers : unknown_answer(k)) ~> finished)

\* a callee's assertion that is in fact safe was reported as a warning because the
\* second query timed out, and the analysis of the caller went on and finished
C6_Witness ==
  /\ finished
  /\ \E k \in DOMAIN smt_answers :
       /\ k[1] # "main"
       /\ smt_answers[k].r1 = "Sat" /\ smt_answers[k].r2 = "Unknown"
       /\ sat_classification(smt_answers[k].num, smt_answers[k].cond) = "Safe"
       /\ published(k) = "Warning"

\* C7: every assertion the analysis reached gets exactly one classification, and exactly
\* one diagnostic when that is Unsafe or Warning (none when Safe), whatever number of
\* visits and of call sites: when an iterator's run is over and its function counts as
\* checked, each assertion it reached has been classified
C7_OneClassificationPerAssert ==
  \A it \in AllIters :
    (run_returned(it) /\ it.def_id \in checked_def_ids) =>
      \A bb \in DOMAIN it.place_to_abstract_value :
        /\ <<it.def_id, bb>> \in DOMAIN smt_answers
        /\ Cardinality(assert_diagnostics(<<it.def_id, bb>>))
             = IF check_assert_condition(smt_answers[<<it.def_id, bb>>]) = "Safe" THEN 0 ELSE 1

\* the top iterator is about to visit a block of the given terminator kind in a reachable state
at_terminator(kind) ==
  /\ ~finished /\ AtComponent /\ Comp.kind = "Vertex" /\ has_pre(Top, Comp.bb)
  /\ block_data(Top, Comp.bb).term.kind = kind
  /\ ~abs_is_bottom(pre_of(Top, Comp.bb))

\* the iterator as it reaches the terminator of the block it is about to visit
before_terminator == visit_block_statements(Top, Comp.bb, pre_of(Top, Comp.bb))

\* the diagnostics of the given cause an iterator has buffered for a block
buffered_for(it, bb, cause) ==
  {i \in 1..Len(it.buffered_diagnostics) :
     it.buffered_diagnostics[i].span = bb /\ it.buffered_diagnostics[i].cause = cause}

distinct_warnings(it, bb, cause) ==
  {it.buffered_diagnostics[i] : i \in buffered_for(it, bb, cause)}

\* C9: a Drop whose place is tainted or whose heap block was already dropped has exactly
\* one Memory warning after it is visited: not none, and not two when the place is both
\* tainted and already dropped
C9_OneMemoryWarningPerDrop ==
  [][at_terminator("Drop") =>
       LET local == block_data(Top, Comp.bb).term.v
           heaps == get_related_heaps(before_terminator, local)
       IN (local \in before_terminator.tainted_variables
             \/ (heaps # {} /\ heaps \subseteq dropped_heaps))
          => Cardinality(distinct_warnings(iters'[Len(iters)], Comp.bb, "Memory")) = 1]_vars

C10_StateUnchanged ==
  [][at_terminator("InlineAsm") =>
       iters'[Len(iters)].post[Comp.bb] = before_terminator.state]_vars

\* the abstract states an iterator holds: its current state and the recorded post-states
states_of(it) == {it.state} \cup {it.post[bb] : bb \in DOMAIN it.post}

\* C11: in every reachable abstract state a path with a non-numerical symbolic binding
\* (a heap block, a cast, a join) has no numerical binding
C11_SymbolicPathsNotNumerical ==
  \A it \in AllIters : \A a \in states_of(it) :
    ~abs_is_bottom(a) =>
      \A path \in DOMAIN a.symbolic_domain : path \notin DOMAIN a.numerical_domain.m

\* the exit conditions the terminator of bb records on its own
own_exit_conditions(it, bb) ==
  IF block_data(it, bb).term.kind = "SwitchInt"
  THEN visit_switch_int([it EXCEPT !.state = default], block_data(it, bb).term).state.exit_conditions
  ELSE EmptyMap

\* C12: the exit-condition map is block-local: the exit conditions of post[bb] are
\* exactly those bb's own terminator recorded, none is carried over from a predecessor
C12_ExitConditionsBlockLocal ==
  \A it \in AllIters : \A bb \in DOMAIN it.post :
    ~abs_is_bottom(it.post[bb]) =>
      it.post[bb].exit_conditions = own_exit_conditions(it, bb)

\* the order on symbolic stores that lub induces
store_leq(a, b) == lub(a, b) = b

\* C13: join, meet, widen and narrow are componentwise: the numerical half of the result
\* is the operation on the numerical halves, and the symbolic half is the corresponding
\* operation on both symbolic halves (an upper bound of both for join and widen, a
\* lower bound of both for meet and narrow)
C13_Componentwise ==
  LET res == applied.result
  IN /\ applied.op = "join" =>
          /\ res.numerical_domain = num_join(lhs.numerical_domain, rhs.numerical_domain)
          /\ res.symbolic_domain = lub(lhs.symbolic_domain, rhs.symbolic_domain)
     /\ applied.op = "widening_with" =>
          /\ res.numerical_domain = num_widening_with(lhs.numerical_domain, rhs.numerical_domain)
          /\ store_leq(lhs.symbolic_domain, res.symbolic_domain)
          /\ store_leq(rhs.symbolic_domain, res.symbolic_domain)
     /\ applied.op = "meet" =>
          /\ res.numerical_domain = num_meet(lhs.numerical_domain, rhs.numerical_domain)
          /\ store_leq(res.symbolic_domain, lhs.symbolic_domain)
          /\ store_leq(res.symbolic_domain, rhs.symbolic_domain)
     /\ applied.op = "narrowing_with" =>
          /\ res.numerical_domain = num_narrowing_with(lhs.numerical_domain, rhs.numerical_domain)
          /\ store_leq(res.symbolic_domain, lhs.symbolic_domain)
          /\ store_leq(res.symbolic_domain, rhs.symbolic_domain)

\* SymbolicDomain::top() and SymbolicDomain::bottom(): both hold an empty value_map and
\* differ only in the is_top / is_bottom flags, which no operation of the analysis reads
\* back from a stored state; stores are compared by their value_map
store_top == EmptyMap
store_bottom == EmptyMap

\* C14: the symbolic half satisfies the identity laws for every store x: the join of x
\* with the bottom store is x, and the meet of x with the top store is x
C14_SymbolicIdentityLaws ==
  /\ (applied.op = "join" /\ rhs.symbolic_domain = store_bottom) =>
        applied.result.symbolic_domain = lhs.symbolic_domain
  /\ (applied.op = "meet" /\ rhs.symbolic_domain = store_top) =>
        applied.result.symbolic_domain = lhs.symbolic_domain

\* the allocation sites of the body an iterator analyses
alloc_sites(it) ==
  UNION {{<<bb, i>> : i \in {j \in 1..Len(block_data(it, bb).stmts) :
                                block_data(it, bb).stmts[j].op = "box"}} :
           bb \in 0..(Len(body_of(it).blocks) - 1)}

heap_ids_injective(it) ==
  \A l1, l2 \in DOMAIN it.heap_addresses :
    it.heap_addresses[l1] = it.heap_addresses[l2] => l1 = l2

\* C15: within one fixpoint run the mapping from allocation site to heap id is injective,
\* a site that is visited again keeps the id it got first, and the run mints no more
\* ids than the body has allocation sites
C15_HeapIdPerSite ==
  /\ [](\A it \in AllIters :
          /\ heap_ids_injective(it)
          /\ DOMAIN it.heap_addresses \subseteq alloc_sites(it)
          /\ callees(it.def_id) = {} /\ it.call_stack = <<>> =>
                it.heap_address_counter <= Cardinality(alloc_sites(it)))
  /\ [][\A i \in 1..Min2(Len(iters), Len(iters')) :
          \A loc \in DOMAIN iters[i].heap_addresses :
            /\ loc \in DOMAIN iters'[i].heap_addresses
            /\ iters'[i].heap_addresses[loc] = iters[i].heap_addresses[loc]]_vars

\* an allocation site inside a loop has been visited more than once, next to another site
C15_Witness ==
  /\ prog = 17 /\ Cardinality(DOMAIN Top.heap_addresses) = 2
  /\ get_iter_num(Top, 1) >= 2 /\ 2 \in DOMAIN Top.post

\* the top iterator is about to visit, in a reachable state, a call with a destination
\* whose callee is not on the call stack and has no MIR
at_call_without_mir ==
  /\ at_terminator("Call")
  /\ call_expands(Top, block_data(Top, Comp.bb).term)
  /\ ~is_mir_available(block_data(Top, Comp.bb).term.callee)
  /\ block_data(Top, Comp.bb).term.v # ""

\* C16: after a call to a function without MIR the caller's state is its state before
\* the call with the destination of the call set to Top, and no warning is emitted
C16_CallWithoutMir ==
  [][at_call_without_mir =>
       /\ iters'[Len(iters)].post[Comp.bb]
            = update_top(before_terminator.state, block_data(Top, Comp.bb).term.v)
       /\ iters'[Len(iters)].buffered_diagnostics = Top.buffered_diagnostics]_vars

\* the nested iterator has finished its run() without visiting a Return
callee_without_result ==
  ~finished /\ Len(iters) > 1 /\ run_returned(Top) /\ Top.result_blocks = {}

\* C17: when the analysis of a callee records no result block the call transfer still
\* completes: the caller goes on, with an unreachable (Bottom) state after the call
C17_DivergingCalleeGivesBottom ==
  [][callee_without_result =>
       /\ panicked' = ""
       /\ Len(iters') = Len(iters) - 1
       /\ iters[Len(iters) - 1].pending \in DOMAIN iters'[Len(iters')].post
       /\ abs_is_bottom(iters'[Len(iters')].post[iters[Len(iters) - 1].pending])]_vars

reached_return_blocks(it) ==
  {bb \in DOMAIN it.post :
     block_data(it, bb).term.kind = "Return" /\ ~abs_is_bottom(it.post[bb])}

\* the join of post[bb] over the given blocks, in block order
RECURSIVE join_of_posts(_, _)
join_of_posts(it, bbs) ==
  LET first == CHOOSE p \in bbs : \A q \in bbs : p <= q
  IN IF Cardinality(bbs) = 1 THEN it.post[first]
     ELSE join(it.post[first], join_of_posts(it, bbs \ {first}))

\* the nested iterator has finished its run() and recorded a result block
callee_with_result ==
  ~finished /\ Len(iters) > 1 /\ run_returned(Top) /\ Top.result_blocks # {}

at_unsupported_assertion ==
  ~finished /\ run_returned(Top) /\ checker_panics(Top)

\* C20: an assertion whose condition contains an expression of an unsupported kind (Cast,
\* HeapBlock, Join, ...) is answered unknown by the translation: the check completes and
\* the assertion is classified as a Warning
C20_UnsupportedKindIsWarning ==
  [][at_unsupported_assertion =>
       /\ panicked' = ""
       /\ Top.def_id \in DOMAIN diagnostics_for'
       /\ \A bb \in unsupported_blocks(Top) :
            \E i \in 1..Len(diagnostics_for'[Top.def_id]) :
              /\ diagnostics_for'[Top.def_id][i].span = bb
              /\ diagnostics_for'[Top.def_id][i].cause = "Assert"
              /\ diagnostics_for'[Top.def_id][i].msg = "Possible error"]_vars

\* C21: with memory_safety_only set no diagnostic other than a Memory diagnostic is
\* emitted: neither the Assembly warning of an InlineAsm nor the diagnostic of an assertion
C21_OnlyMemoryDiagnosticsEmitted ==
  memory_safety_only => \A i \in DOMAIN emitted : emitted[i].cause = "Memory"

\* the diagnostics as collected from the map in some order differ from the sorted ones
collected_out_of_order ==
  \E order \in Orders(DOMAIN diagnostics_for) :
    flatten(diagnostics_for, order) # sort_by(flatten(diagnostics_for, order))

\* C22: of any two emitted diagnostics the one whose primary span comes first is emitted
\* first, in whatever order the functions and blocks were analysed and collected
C22_EmittedInSpanOrder ==
  \A i, j \in DOMAIN emitted : i < j => ~compare(emitted[j], emitted[i])

C22_Witness ==
  /\ finished /\ collected_out_of_order
  /\ \E i, j \in DOMAIN emitted : i < j /\ compare(emitted[i], emitted[j])

\* what NumericalAnalysis::run has returned: Ok(AnalysisInfo) after emit_diagnostics,
\* on every path that returns
run_result == IF finished /\ panicked = "" THEN "Ok" ELSE ""

\* the largest hard cap that the explored widening delays can still exceed
IterationCap == MaxDelay + 1

C24_MissingEntryExitsNonzero ==
  (~global_context /\ exit_code # -1)
    => (\E i \in DOMAIN log : log[i] = "Entry point not found") /\ exit_code # EXIT_SUCCESS

\* the first pass of the narrowing loop of a circle has ended and refines pre
first_narrowing_refines ==
  /\ ~finished /\ TopFrame.phase = "narrow" /\ FrameDone /\ TopFrame.k = 1
  /\ TopFrame.k < narrowing_iteration
  /\ ~leq(TopFrame.pre, get_state_from_predecessors(Top, TopFrame.head))

\* C25: the first narrowing iteration of a loop that refines pre has refine call meet,
\* whatever the domain and however many ascending iterations the loop needed
C25_FirstNarrowingUsesMeet ==
  first_narrowing_refines => refine_operator(Top, TopFrame.head) = "meet"

\* an ascending pass of a circle has ended without reaching the fixpoint
ascending_not_stabilised ==
  /\ ~finished /\ TopFrame.phase = "asc" /\ FrameDone
  /\ ~leq(get_state_from_predecessors(Top, TopFrame.head), TopFrame.pre)

\* the number of pure joins recorded for the circle at head
pure_joins(it, head) == IF head \in DOMAIN it.joins THEN it.joins[head] ELSE 0

\* C26: at each ascending iteration of a circle that has not reached the fixpoint, pre is
\* replaced by join(pre, new_pre) when the circle's iteration count is at most
\* widening_delay and by the widening otherwise: no widening within the delay, no pure
\* join after it
C26_JoinWithinDelayElseWidening ==
  [][ascending_not_stabilised
       => LET head == TopFrame.head
              count == get_iter_num(Top, head)
              new_pre == get_state_from_predecessors(Top, head)
              next == iters'[Len(iters)]
          IN /\ next.frames[Len(Top.frames)].pre
                  = IF count <= widening_delay THEN join(TopFrame.pre, new_pre)
                    ELSE widening_with(TopFrame.pre, new_pre)
             /\ (pure_joins(next, head) > pure_joins(Top, head)) <=> (count <= widening_delay)]_vars

C26_Witness ==
  /\ ascending_not_stabilised /\ widening_delay >= 1
  /\ get_iter_num(Top, TopFrame.head) > widening_delay
  /\ pure_joins(Top, TopFrame.head) = widening_delay
  /\ widening_with(TopFrame.pre, get_state_from_predecessors(Top, TopFrame.head))
       # join(TopFrame.pre, get_state_from_predecessors(Top, TopFrame.head))

\* update_value_at has been applied to the path with a value of one of the kinds
updated_with(kinds) == applied.op = "update_value_at" /\ applied.value.expression \in kinds

\* C27: after update_value_at(p, v) with v = Numerical(q), p has q's value in the numerical
\* lattice and no binding in the symbolic store, whatever binding it had before
C27_NumericalLeavesNoSymbolicBinding ==
  (updated_with({"Numerical"}) /\ ~is_bottom(lhs.numerical_domain))
    => /\ var2itv(applied.result.numerical_domain, applied.path)
            = var2itv(lhs.numerical_domain, applied.value.path)
       /\ applied.path \notin DOMAIN applied.result.symbolic_domain

\* C28: after update_value_at(p, v) with v neither Top, Bottom, Numerical, a constant
\* integer nor an integer Variable, p is bound to v in the symbolic store and forgotten
\* in the numerical lattice
C28_SymbolicOnlyForgetsNumerical ==
  (/\ updated_with({"CompileTimeConstant", "Variable", "HeapBlock", "Cast"})
   /\ ~applied.value.integer)
    => /\ applied.path \in DOMAIN applied.result.symbolic_domain
       /\ applied.result.symbolic_domain[applied.path] = applied.value.id
       /\ applied.path \notin DOMAIN applied.result.numerical_domain.m

\* C29: for SwitchInt(discr, targets) the condition discr == v is recorded toward the
\* target of every listed value v, and the condition of the otherwise target is the
\* conjunction of the negations, also when values, or a value and otherwise, share a block
C29_OneConditionPerValue ==
  applied.op = "visit_switch_int"
    => /\ \A i \in DOMAIN applied.targets :
            equals("x", applied.targets[i].value)
              \in applied.result.exit_conditions[applied.targets[i].target]
       /\ applied.result.exit_conditions[applied.otherwise]
            = {logical_not(equals("x", applied.targets[i].value)) : i \in DOMAIN applied.targets}

\* the block the top iterator analyses in the next step with a state that is not bottom
analysed_block ==
  IF ~finished /\ AtComponent /\ Comp.kind = "Vertex" /\ has_pre(Top, Comp.bb)
     /\ ~abs_is_bottom(pre_of(Top, Comp.bb))
  THEN {Comp.bb}
  ELSE IF ~finished /\ TopFrame.phase # "root" /\ TopFrame.idx = 0 /\ ~abs_is_bottom(TopFrame.pre)
       THEN {TopFrame.head}
       ELSE {}

\* the locals tainted after the assignments stmts[i..] when those of tainted were before
RECURSIVE taint_through(_, _, _)
taint_through(tainted, stmts, i) ==
  IF i > Len(stmts) THEN tainted
  ELSE taint_through(IF stmts[i].op \in {"add", "cast"} /\ stmts[i].src \in tainted
                     THEN tainted \cup {stmts[i].dst} ELSE tainted,
                     stmts, i + 1)

\* C30: a local is tainted when it is the destination of Vec::from_raw_parts or is
\* assigned from a tainted local, so that taint follows every chain of assignments, and
\* a tainted local of a function under analysis is never untainted
C30_TaintFollowsAssignments ==
  [][/\ \A i \in 1..Len(iters) :
          i <= Len(iters') => iters[i].tainted_variables \subseteq iters'[i].tainted_variables
     /\ \A bb \in analysed_block :
          LET blk == block_data(Top, bb)
              after == iters'[Len(iters)].tainted_variables
          IN /\ taint_through(Top.tainted_variables, blk.stmts, 1) \subseteq after
             /\ blk.term.kind = "FromRawParts" => "q" \in after]_vars

\* the taint of the destination of from_raw_parts has reached the returned local
\* through three assignments, and the Return reported it
C30_Witness ==
  /\ {"q", "a", "b", "_0"} \subseteq Top.tainted_variables
  /\ buffered_for(Top, 1, "Memory") # {}

\* every valuation of the paths allowed by the numerical value a is allowed by b: a path
\* a value does not track is unconstrained in it
valuations_included(a, b) ==
  \/ a.bot
  \/ /\ ~b.bot
     /\ \A d \in DOMAIN b.m : var2itv(a, d).lo >= b.m[d].lo /\ var2itv(a, d).hi <= b.m[d].hi

\* C31: leq(a, b) on two states that track different sets of paths aligns their
\* dimensions and answers true whenever every valuation allowed by a's numerical half
\* is allowed by b's
C31_LeqAlignsDimensions ==
  (applied.op = "leq" /\ valuations_included(lhs.numerical_domain, rhs.numerical_domain))
    => applied.answer

\* the Drop terminators of the program under analysis
drop_terminators ==
  {fb \in (DOMAIN Programs[prog]) \X (0..5) :
     /\ fb[2] < Len(Programs[prog][fb[1]].blocks)
     /\ Programs[prog][fb[1]].blocks[fb[2] + 1].term.kind = "Drop"}

\* the double-free warnings an iterator has buffered
double_frees(it) ==
  {i \in 1..Len(it.buffered_diagnostics) : it.buffered_diagnostics[i].msg = "double-free"}

\* C32: visiting again the only Drop terminator of a program (in a later fixpoint
\* iteration, a narrowing pass or a second analysis of its function) reports no
\* double-free: every heap block in the dropped set was recorded by this same terminator
C32_SameDropNeverDoubleFree ==
  [][(at_terminator("Drop") /\ Cardinality(drop_terminators) = 1)
       => double_frees(iters'[Len(iters)]) = double_frees(Top)]_vars

\* C33: two iterators that are active under one entry point never hold the same heap
\* block for two different allocation sites
C33_HeapBlocksDistinctAcrossIterators ==
  \A i, j \in 1..Len(iters) :
    i # j =>
      \A l1 \in DOMAIN iters[i].heap_addresses : \A l2 \in DOMAIN iters[j].heap_addresses :
        <<iters[i].def_id, l1>> # <<iters[j].def_id, l2>>
          => iters[i].heap_addresses[l1] # iters[j].heap_addresses[l2]

\* C34: no analysis of a function is started while an analysis of the same function,
\* the entry function included, is under way
C34_NoNestedAnalysisOfSameFunction ==
  [][Len(iters') > Len(iters)
       => \A i \in 1..Len(iters) : iters[i].def_id # iters'[Len(iters')].def_id]_vars

\* C35: whenever the iterator is about to start the fixpoint computation of a circle,
\* also of an inner circle that an outer pass enters again, the iteration counter of
\* that circle is zero
C35_CircleCounterStartsAtZero ==
  (~finished /\ AtComponent /\ Comp.kind = "Circle" /\ has_pre(Top, Comp.bb))
    => get_iter_num(Top, Comp.bb) = 0

\* C36: on a state that is not bottom, after update_value_at(p, v) with v the constant
\* integer n, value_at(p) is the constant n, whatever binding p had before
C36_ConstantReadBack ==
  (/\ updated_with({"CompileTimeConstant"}) /\ applied.value.integer
   /\ ~is_bottom(lhs.numerical_domain))
    => value_at(applied.result, applied.path)
         = SymbolicValue("CompileTimeConstant", "", TRUE, applied.value.n, 0)

\* C37: the constraint system translated from the conjunction of the negated case
\* conditions of a SwitchInt holds the constraint of every conjunct
C37_ConjunctionKeepsBothSystems ==
  applied.op = "try_from"
    => \A i \in DOMAIN applied.targets :
         \E k \in DOMAIN applied.system :
           <<applied.system[k]>> = try_from(logical_not(equals("x", applied.targets[i].value)))

\* the step is one in which run_checker returns: the top iterator ends its analysis
run_checker_returns ==
  /\ ~finished /\ panicked' = ""
  /\ Len(iters') < Len(iters) \/ finished'

\* C38: when run_checker returns, every diagnostic the iterator has buffered is stored in
\* the global map under its function or has been cancelled, also for a function that
\* was checked earlier
C38_BufferedStoredOrCancelled ==
  [][run_checker_returns =>
       \A i \in DOMAIN Top.buffered_diagnostics :
         \/ run_checker(Top, FALSE, FALSE).cancelled
         \/ /\ Top.def_id \in DOMAIN diagnostics_for'
            /\ \E k \in DOMAIN diagnostics_for'[Top.def_id] :
                 diagnostics_for'[Top.def_id][k] = Top.buffered_diagnostics[i]]_vars

\* C39: add_constraints leaves the numerical state as it was when the system is
\* identically true (it is empty) and makes it bottom when the system is identically
\* false (all its constraints are contradictions)
C39_TrueKeepsFalseEmpties ==
  applied.op = "add_constraints"
    => /\ is_true(applied.system) => applied.result.numerical_domain = lhs.numerical_domain
       /\ is_false(applied.system) => is_bottom(applied.result.numerical_domain)

\* an identically false system was added to a state that was not bottom
C39_Witness ==
  /\ applied.op = "add_constraints" /\ is_false(applied.system)
  /\ ~is_bottom(lhs.numerical_domain) /\ ~is_top(lhs.numerical_domain)
  /\ is_bottom(applied.result.numerical_domain)

\* C40: every callee analysis gets the next offset of its caller as its offset, no two
\* analyses started under the entry point (the entry, the active ones, the completed
\* ones) have the same offset, and the next offset of an iterator never decreases
C40_FreshOffsetsNeverCollide ==
  /\ [](\A i, j \in DOMAIN fresh_offsets : i # j => fresh_offsets[i] # fresh_offsets[j])
  /\ [][/\ Len(iters') > Len(iters) =>
             iters'[Len(iters')].fresh_variable_offset = Top.next_fresh_variable_offset
        /\ \A i \in 1..Min2(Len(iters), Len(iters')) :
             iters'[i].next_fresh_variable_offset >= iters[i].next_fresh_variable_offset]_vars

\* a callee analysis is active after two others have completed
C40_Witness ==
  /\ Len(iters) >= 2 /\ Len(fresh_offsets) - Len(iters) >= 2
  /\ Top.fresh_variable_offset = fresh_offsets[Len(fresh_offsets)]
====
